---- MODULE Spec2Model ----
\* Instance-group load balancer of the messaging API: the grouped and the
\* ungrouped balanced text send of SendMessageController, the rotation store
\* (shared cache plus process-local fallback) and the group operations of
\* InstanceGroupService that the balancer depends on.
\* External webhook dispatcher: the fan-out of ExternalWebhookService, its
\* retry loop, statistics updates and per-subscriber circuit breaker, and the
\* subscriber administration (create, update, delete, toggle, test call) of
\* ExternalWebhookService and ExternalWebhookController, one step per await.
EXTENDS Integers, Sequences, FiniteSets, TLC

VARIABLES
  groups,                \* repository.instanceGroup: id -> [name, alias, enabled, instances]
  open,                  \* waMonitor.waInstances[i].connectionStatus.state = 'open'
  cacheOn,               \* whether the shared cache is enabled
  cache,                 \* shared cache: key -> stored entry
  rotationMemory,        \* SendMessageController.rotationMemory
  globalRotationMemory,  \* SendMessageController.globalRotationMemory
  log,                   \* history: one record per selection that was made
  result,                \* history: the response to the last request
  envSteps,              \* history: number of group / registry changes so far
  calls                  \* grouped sends in flight (interleaved execution)

VARIABLES
  webhooks,              \* prismaRepository.externalWebhook: id -> record
  circuitBreakers,       \* ExternalWebhookService.circuitBreakers: id -> state
  now,                   \* Date.now(), in milliseconds
  dispatches,            \* sendToAllWebhooks calls: slot -> progress
  deliveries,            \* sendWebhook calls: <<slot, id>> -> progress
  lastRequest,           \* history: the last HTTP request that was issued
  started                \* history: number of dispatches so far

VARIABLES
  pending,               \* group administration requests in flight: process -> progress
  reply,                 \* history: the response to the last administration request
  sample                 \* the argument and the value of the conversion under check

\* The state of the load balancer.
lbVars == <<groups, open, cacheOn, cache, rotationMemory, globalRotationMemory,
            log, result, envSteps, calls>>

\* The state of the webhook dispatcher.
whVars == <<webhooks, circuitBreakers, now, dispatches, deliveries, lastRequest,
            started>>

\* The state of the administration requests.
adVars == <<pending, reply, sample>>

vars == <<lbVars, whVars, adVars>>

\* ---------------------------------------------------------------- bounds
MaxCalls == 3
MaxRotCalls == 6
MaxEnv == 1
MaxFaultCalls == 2
MaxConcCalls == 2
MaxDispatches == 3
MaxBreakerDispatches == 7
MaxFaultDispatches == 2
MaxTicks == 3
TickMs == 30000
MaxAliasLen == 4
MaxAdminCalls == 3
MaxSerialCalls == 4
MaxUrlCalls == 3
MaxLiveDispatches == 2
MaxBackoffAttempts == 3
MaxFilterDispatches == 6
MaxSendFailCalls == 3
MaxCreateCalls == 2
MaxCreateDispatches == 2

\* ------------------------------------------------------------- constants
Null == "null"
CACHE_KEY_PREFIX == "instance_rotation"
GLOBAL_CACHE_KEY == "global_rotation"
GROUP_CACHE_KEY_PREFIX == "group_rotation"

\* Instance names in the order Array.prototype.sort() gives them.
InstanceOrder == <<"a", "b", "c">>
Instances == {InstanceOrder[i] : i \in 1..Len(InstanceOrder)}
Rank(x) == CHOOSE i \in 1..Len(InstanceOrder) : InstanceOrder[i] = x

GroupIds == {"g1", "g2"}
AliasOf(g) == IF g = "g1" THEN "al1" ELSE "al2"
Aliases == {"al1", "al2"}

\* Destination numbers, as lists of characters.
DigitChars == {"0", "1", "2", "3", "4", "5", "6", "7", "8", "9"}
DigitSeq == <<"1", "2", "3", "4", "5", "6", "7", "8", "9">>
Numbers == {<<"5", "1">>, <<"5", "-", "1">>}
PlainNumbers == {<<"5", "-", "1">>}
\* The numbers of the rotation scenarios: 91, 92, ...
NumScenarioNumbers == 6
ScenarioNumber(i) == <<"9", DigitSeq[i]>>

\* ------------------------------------------------------ sequence helpers
Range(s) == {s[i] : i \in 1..Len(s)}

\* usedInstances is a JavaScript Set: insertion ordered, duplicate free.
SetAdd(s, x) == IF x \in Range(s) THEN s ELSE Append(s, x)

\* Array.prototype.indexOf: 0-based position of the first occurrence, or -1.
IndexOf(s, x) ==
  IF x \in Range(s)
  THEN (CHOOSE i \in 1..Len(s) : s[i] = x /\ \A j \in 1..(i - 1) : s[j] # x) - 1
  ELSE -1

InsertSorted(x, s) ==
  LET k == Cardinality({i \in 1..Len(s) : Rank(s[i]) <= Rank(x)})
  IN  SubSeq(s, 1, k) \o <<x>> \o SubSeq(s, k + 1, Len(s))

\* A sort that leaves the list in membership order.
SortInstances_Unsorted(s) == s

RECURSIVE SortInstances(_)
\* [...groupInstances].sort()
SortInstances(s) ==
  IF s = <<>> THEN <<>> ELSE InsertSorted(Head(s), SortInstances(Tail(s)))

\* Array.prototype.find with the two predicates the selection uses;
\* Null stands for undefined.
FindUnused_IgnoreUsed(ordered, data) ==
  LET ok == {i \in 1..Len(ordered) : ordered[i] # data.lastUsedInstance}
  IN  IF ok = {} THEN Null
      ELSE ordered[CHOOSE i \in ok : \A j \in ok : i <= j]

FindUnused(ordered, data) ==
  LET ok == {i \in 1..Len(ordered) :
               /\ ordered[i] # data.lastUsedInstance
               /\ ordered[i] \notin Range(data.usedInstances)}
  IN  IF ok = {} THEN Null
      ELSE ordered[CHOOSE i \in ok : \A j \in ok : i <= j]

FindNotLast(ordered, data) ==
  LET ok == {i \in 1..Len(ordered) : ordered[i] # data.lastUsedInstance}
  IN  IF ok = {} THEN Null
      ELSE ordered[CHOOSE i \in ok : \A j \in ok : i <= j]

\* contactNumber.replace(/[^\d]/g, '')
normalizeContactNumber(n) == SelectSeq(n, LAMBDA ch : ch \in DigitChars)

\* ------------------------------------------------------- rotation store
\* A value that may be null is a list of at most one element.
None == <<>>
Some(x) == <<x>>

EmptyContactData == [usedInstances |-> <<>>, lastUsedInstance |-> Null, rotationCount |-> 0]
EmptyGlobalData == [lastUsedInstance |-> Null, rotationCount |-> 0]

\* The strings the controller uses as rotation keys, as tuples of their parts.
PlainContactKey(normalizedContact) == <<"", "", normalizedContact>>
GroupContactKey(groupId, contact) == <<GROUP_CACHE_KEY_PREFIX, groupId, contact>>
ContactCacheKey(contactNumber) == <<CACHE_KEY_PREFIX>> \o contactNumber
GlobalCacheKey == <<GLOBAL_CACHE_KEY, "", "", <<>>>>

\* The cache collaborator: get returns the entry stored under the key, or
\* nothing when the cache is disabled or has no entry.
CacheGet(c, on, key) == IF on /\ key \in DOMAIN c THEN Some(c[key]) ELSE None

\* The cache collaborator: set stores the entry unless the cache is disabled.
CacheSet(c, on, key, entry) == IF on THEN (key :> entry) @@ c ELSE c

\* outcome "throw": the cache call rejects.
getRotationDataFromCache(c, on, mem, contactNumber, outcome) ==
  IF outcome = "throw" THEN None
  ELSE LET cacheData == CacheGet(c, on, ContactCacheKey(contactNumber))
       IN  IF cacheData # None
           THEN Some([usedInstances |-> cacheData[1].usedInstances,
                      lastUsedInstance |-> cacheData[1].lastUsedInstance,
                      rotationCount |-> cacheData[1].rotationCount])
           ELSE IF contactNumber \in DOMAIN mem THEN Some(mem[contactNumber])
           ELSE None

\* Returns the pair <<cache, rotationMemory>> after the save.
saveRotationDataToCache(c, on, mem, contactNumber, data, outcome) ==
  IF outcome = "throw" THEN <<c, mem>>
  ELSE <<CacheSet(c, on, ContactCacheKey(contactNumber),
                  [usedInstances |-> data.usedInstances,
                   lastUsedInstance |-> data.lastUsedInstance,
                   rotationCount |-> data.rotationCount]),
         (contactNumber :> data) @@ mem>>

getGlobalRotationData(c, on, gmem, outcome) ==
  IF outcome = "throw" THEN None
  ELSE LET cacheData == CacheGet(c, on, GlobalCacheKey)
       IN  IF cacheData # None
           THEN Some([lastUsedInstance |-> cacheData[1].lastUsedInstance,
                      rotationCount |-> cacheData[1].rotationCount])
           ELSE Some(gmem)

\* The global descriptor is not written.
saveGlobalRotationData_Skip(c, on, gmem, data, outcome) == <<c, gmem>>

\* Returns the pair <<cache, globalRotationMemory>> after the save.
saveGlobalRotationData(c, on, gmem, data, outcome) ==
  IF outcome = "throw" THEN <<c, gmem>>
  ELSE <<CacheSet(c, on, GlobalCacheKey, data), data>>

\* ------------------------------------------------------------ selection
\* Position (0-based) of the instance that follows the global last instance
\* in the sorted candidates; 0 when there is no last instance or it is not a
\* candidate.
NextGlobalIndex_Stuck(orderedInstances, globalRotationData) == 0

NextGlobalIndex(orderedInstances, globalRotationData) ==
  LET currentGlobalIndex ==
        IF globalRotationData.lastUsedInstance # Null
        THEN IndexOf(orderedInstances, globalRotationData.lastUsedInstance)
        ELSE -1
  IN  (currentGlobalIndex + 1) % Len(orderedInstances)

\* Whether the contact may take the next global instance.
CanUseGlobalNext_Always(nextGlobalInstance, contactRotationData) == TRUE

CanUseGlobalNext(nextGlobalInstance, contactRotationData) ==
  /\ nextGlobalInstance # contactRotationData.lastUsedInstance
  /\ nextGlobalInstance \notin Range(contactRotationData.usedInstances)

\* The contact's used set after the pick was added: reset to the pick alone
\* once it covers the candidates.
ResetCycle_Early(added, orderedInstances, selectedInstance) ==
  IF Len(added) + 1 >= Len(orderedInstances) THEN <<selectedInstance>> ELSE added

ResetCycle(added, orderedInstances, selectedInstance) ==
  IF Len(added) >= Len(orderedInstances) THEN <<selectedInstance>> ELSE added

\* The computation of selectInstanceForContactInGroup between its reads and
\* its writes: contactRead and globalRead are the descriptors read (None when
\* the read returned null).
GroupSelection(contactRead, globalRead, groupInstances) ==
  LET contactRotationData == IF contactRead = None THEN EmptyContactData ELSE contactRead[1]
      globalRotationData == IF globalRead = None THEN EmptyGlobalData ELSE globalRead[1]
      orderedInstances == SortInstances(groupInstances)
      nextGlobalIndex == NextGlobalIndex(orderedInstances, globalRotationData)
      nextGlobalInstance == orderedInstances[nextGlobalIndex + 1]
      first == FindUnused(orderedInstances, contactRotationData)
      second == FindNotLast(orderedInstances, contactRotationData)
      selectedInstance ==
        IF CanUseGlobalNext(nextGlobalInstance, contactRotationData)
        THEN nextGlobalInstance
        ELSE IF first # Null THEN first
        ELSE IF second # Null THEN second
        ELSE orderedInstances[1]
      added == SetAdd(contactRotationData.usedInstances, selectedInstance)
      newUsedInstances == ResetCycle(added, orderedInstances, selectedInstance)
  IN  [selectedInstance |-> selectedInstance,
       newContactRotationData |->
         [usedInstances |-> newUsedInstances,
          lastUsedInstance |-> selectedInstance,
          rotationCount |-> contactRotationData.rotationCount + 1],
       newGlobalRotationData |->
         [lastUsedInstance |-> selectedInstance,
          rotationCount |-> globalRotationData.rotationCount + 1]]

\* The first candidate, scanning the sorted list circularly from position
\* start (0-based), that differs from the contact's last instance and, when
\* strict, is not in the contact's used set; Null when there is none.
ScanFrom(sorted, start, data, strict) ==
  LET n == Len(sorted)
      at(i) == sorted[((start + i) % n) + 1]
      ok == {i \in 0..(n - 1) :
               /\ at(i) # data.lastUsedInstance
               /\ (strict => at(i) \notin Range(data.usedInstances))}
  IN  IF ok = {} THEN Null ELSE at(CHOOSE i \in ok : \A j \in ok : i <= j)

\* The computation of selectInstanceForContact between its reads and its
\* writes.
PlainSelection(rotationRead, globalRead, availableInstances) ==
  LET sortedInstances == SortInstances(availableInstances)
      read == IF rotationRead = None THEN EmptyContactData ELSE rotationRead[1]
      rotationInfo ==
        IF Len(read.usedInstances) >= Len(sortedInstances)
        THEN [read EXCEPT !.usedInstances = <<>>, !.rotationCount = @ + 1]
        ELSE read
      globalLast == IF globalRead = None THEN Null ELSE globalRead[1].lastUsedInstance
      globalLastIndex == IndexOf(sortedInstances, globalLast)
      globalNextIndex ==
        IF globalLast # Null /\ globalLastIndex >= 0
        THEN (globalLastIndex + 1) % Len(sortedInstances)
        ELSE 0
      first == ScanFrom(sortedInstances, globalNextIndex, rotationInfo, TRUE)
      second == ScanFrom(sortedInstances, globalNextIndex, rotationInfo, FALSE)
      selectedInstance ==
        IF first # Null THEN first
        ELSE IF second # Null THEN second
        ELSE sortedInstances[globalNextIndex + 1]
  IN  [selectedInstance |-> selectedInstance,
       newContactRotationData |->
         [usedInstances |-> SetAdd(rotationInfo.usedInstances, selectedInstance),
          lastUsedInstance |-> selectedInstance,
          rotationCount |-> rotationInfo.rotationCount],
       newGlobalRotationData |->
         [lastUsedInstance |-> selectedInstance,
          rotationCount |->
            (IF globalRead = None THEN 0 ELSE globalRead[1].rotationCount) + 1]]

\* ------------------------------------------------------- group service
\* InstanceGroupService.findByAlias: the set of ids of the groups with the alias.
findByAlias(alias) == {g \in DOMAIN groups : groups[g].alias = alias}

\* The members of the group, open or not.
ActiveInstances_All(g) == groups[g].instances

\* The members of the group that the registry reports open, in membership order.
ActiveInstances(g) == SelectSeq(groups[g].instances, LAMBDA i : open[i])

\* getActiveInstances raising the not-found exception for an empty list too.
getActiveInstancesStatus_NotFound(g) ==
  IF g \notin DOMAIN groups \/ ~groups[g].enabled \/ ActiveInstances(g) = <<>>
  THEN "NotFound"
  ELSE "ok"

\* InstanceGroupService.getActiveInstances: the exception it raises, or "ok";
\* findUnique({ where: { id, enabled: true } }) finds no record when the group
\* is gone or disabled.
getActiveInstancesStatus(g) ==
  IF g \notin DOMAIN groups \/ ~groups[g].enabled THEN "NotFound"
  ELSE IF ActiveInstances(g) = <<>> THEN "BadRequest"
  ELSE "ok"

\* getAvailableInstances: every instance of the registry that is open.
getAvailableInstances == SelectSeq(InstanceOrder, LAMBDA i : open[i])

\* ------------------------------------------------------------ responses
\* The response to a request: op and alias name the request, the other fields
\* are the outcome (an error response carries nothing but its status).
Response(op, alias, status) ==
  [op |-> op, alias |-> alias, status |-> status,
   instanceUsed |-> Null, groupId |-> Null, balancingInfo |-> None]

\* What getContactBalancingInfoInGroup returns from the two descriptors it read.
GroupBalancingInfo(contact, groupId, contactData, globalData) ==
  [contact |-> contact, groupId |-> groupId,
   lastUsedInstance |-> contactData.lastUsedInstance,
   usedInstancesInCycle |-> contactData.usedInstances,
   rotationCount |-> contactData.rotationCount,
   globalLastUsedInstance |-> globalData.lastUsedInstance,
   globalRotationCount |-> globalData.rotationCount]

\* What getContactBalancingInfo returns from the descriptor it read.
PlainBalancingInfo(rotationRead) ==
  IF rotationRead = None
  THEN [rotationCount |-> 0, usedInstancesInCycle |-> 0, lastUsedInstance |-> Null]
  ELSE [rotationCount |-> rotationRead[1].rotationCount,
        usedInstancesInCycle |-> Len(rotationRead[1].usedInstances),
        lastUsedInstance |-> rotationRead[1].lastUsedInstance]

CacheOutcomes == {"ok", "throw"}
\* ------------------------------------------------ group service requests
\* A request to InstanceGroupService that waits for the repository. name,
\* alias, enabled and instances are None where the request leaves the field
\* out; instanceName is the argument of addInstance and removeInstance; read
\* is the instances list the request got from its findUnique.
PendingCall(op, pc, id, name, alias, enabled, instances, instanceName) ==
  [op |-> op, pc |-> pc, id |-> id, name |-> name, alias |-> alias,
   enabled |-> enabled, instances |-> instances, instanceName |-> instanceName,
   read |-> <<>>, checked |-> 0]

\* The request ends with this response.
Respond(p, op, status) ==
  /\ pending' = [q \in DOMAIN pending \ {p} |-> pending[q]]
  /\ reply' = [op |-> op, status |-> status, n |-> reply.n + 1]

\* The request goes on to its next repository call.
Proceed(p, call) ==
  /\ pending' = (p :> call) @@ pending
  /\ UNCHANGED reply

\* The admission of a request: the process is free and the number of
\* requests is below the limit.
Admit(p, limit) ==
  /\ p \notin DOMAIN pending
  /\ reply.n + Cardinality(DOMAIN pending) < limit

\* repository.instance.findUnique({ where: { name } }) of validateInstances
\* finds an instance.
InstanceFound(table, instanceName) == instanceName \in table

\* The name check of create is left out.
NameInUse_Create(name) == FALSE
\* findFirst({ where: { name } })
NameInUse(name) == \E g \in DOMAIN groups : groups[g].name = name

\* findFirst({ where: { name, id: { not: id } } })
NameConflict(name, id) == \E g \in DOMAIN groups \ {id} : groups[g].name = name

\* The unique indexes InstanceGroup_name_key and InstanceGroup_alias_key
\* admit the records.
UniqueIndexesHold(gs) ==
  \A g, h \in DOMAIN gs :
    g # h => gs[g].name # gs[h].name /\ gs[g].alias # gs[h].alias

\* The id of a new record.
GroupIdOrder == <<"g1", "g2">>
NewGroupId ==
  GroupIdOrder[CHOOSE i \in 1..Len(GroupIdOrder) :
                 /\ GroupIdOrder[i] \notin DOMAIN groups
                 /\ \A j \in 1..(i - 1) : GroupIdOrder[j] \in DOMAIN groups]

\* The last instance may be removed.
removeInstanceCheck_AllowEmpty(currentInstances, instanceName) ==
  IF instanceName \notin Range(currentInstances) THEN "BadRequest" ELSE "ok"

\* removeInstance: the exception it raises for the list it has read, or "ok".
removeInstanceCheck(currentInstances, instanceName) ==
  IF instanceName \notin Range(currentInstances) THEN "BadRequest"
  ELSE IF SelectSeq(currentInstances, LAMBDA name : name # instanceName) = <<>>
  THEN "BadRequest"
  ELSE "ok"

\* await repository.instanceGroup.findUnique({ where: { id } }) of update,
\* delete, addInstance and removeInstance, and the code that follows it up to
\* the next await of the request c of process p.
serviceFind(p, c) ==
  /\ UNCHANGED groups
  /\ IF c.id \notin DOMAIN groups
     THEN Respond(p, c.op, "NotFound")
     ELSE CASE c.op = "update" ->
                 IF c.name # None /\ c.name[1] # <<>> /\ c.name[1] # groups[c.id].name
                 THEN Proceed(p, [c EXCEPT !.pc = "nameCheck"])
                 ELSE IF c.instances # None
                 THEN Proceed(p, [c EXCEPT !.pc = "validate"])
                 ELSE Proceed(p, [c EXCEPT !.pc = "write"])
            [] c.op = "delete" -> Proceed(p, [c EXCEPT !.pc = "delete"])
            [] c.op = "addInstance" ->
                 Proceed(p, [c EXCEPT !.pc = "validate", !.read = groups[c.id].instances])
            [] c.op = "removeInstance" ->
                 IF removeInstanceCheck(groups[c.id].instances, c.instanceName) # "ok"
                 THEN Respond(p, c.op, "BadRequest")
                 ELSE Proceed(p, [c EXCEPT
                        !.pc = "write",
                        !.read = groups[c.id].instances,
                        !.instances = Some(SelectSeq(groups[c.id].instances,
                                                     LAMBDA name : name # c.instanceName))])

\* await repository.instanceGroup.findFirst by name, of create and update.
serviceNameCheck(p, c) ==
  /\ UNCHANGED groups
  /\ IF c.op = "create"
     THEN IF NameInUse(c.name[1])
          THEN Respond(p, c.op, "BadRequest")
          ELSE Proceed(p, [c EXCEPT !.pc = "write"])
     ELSE IF NameConflict(c.name[1], c.id)
          THEN Respond(p, c.op, "BadRequest")
          ELSE IF c.instances # None
          THEN Proceed(p, [c EXCEPT !.pc = "validate"])
          ELSE Proceed(p, [c EXCEPT !.pc = "write"])

\* One await of validateInstances of create, update and addInstance: the
\* findUnique of the next name of the list in repository.instance (holding
\* the names of table). A name that is not found rejects the request; after
\* a name that is found the loop goes on to the next lookup, and after the
\* last name the code that follows runs up to the next await. checked is the
\* number of names looked up so far.
serviceValidate(p, c, table) ==
  /\ UNCHANGED groups
  /\ LET names == IF c.op = "addInstance" THEN <<c.instanceName>> ELSE c.instances[1]
     IN  IF c.checked < Len(names) /\ ~InstanceFound(table, names[c.checked + 1])
         THEN Respond(p, c.op, "BadRequest")
         ELSE IF c.checked + 1 < Len(names)
         THEN Proceed(p, [c EXCEPT !.checked = @ + 1])
         ELSE CASE c.op = "addInstance" ->
                     IF c.instanceName \in Range(c.read)
                     THEN Respond(p, c.op, "BadRequest")
                     ELSE Proceed(p, [c EXCEPT
                            !.pc = "write",
                            !.instances = Some(Append(c.read, c.instanceName))])
                [] c.op = "update" -> Proceed(p, [c EXCEPT !.pc = "write"])
                [] c.op = "create" -> Proceed(p, [c EXCEPT !.pc = "nameCheck"])

\* await repository.instanceGroup.create / update: the fields of the request
\* replace those of the record. The call rejects when the record is gone or
\* a unique index refuses the write.
serviceWrite(p, c) ==
  IF c.op = "create"
  THEN LET record == [name |-> c.name[1], alias |-> c.alias[1],
                      enabled |-> IF c.enabled = None THEN TRUE ELSE c.enabled[1],
                      instances |-> c.instances[1]]
           written == (NewGroupId :> record) @@ groups
       IN  IF UniqueIndexesHold(written)
           THEN groups' = written /\ Respond(p, c.op, "ok")
           ELSE groups' = groups /\ Respond(p, c.op, "Error")
  ELSE IF c.id \notin DOMAIN groups
  THEN groups' = groups /\ Respond(p, c.op, "Error")
  ELSE LET written == [groups EXCEPT
             ![c.id].name = IF c.name = None THEN @ ELSE c.name[1],
             ![c.id].alias = IF c.alias = None THEN @ ELSE c.alias[1],
             ![c.id].enabled = IF c.enabled = None THEN @ ELSE c.enabled[1],
             ![c.id].instances = IF c.instances = None THEN @ ELSE c.instances[1]]
       IN  IF UniqueIndexesHold(written)
           THEN groups' = written /\ Respond(p, c.op, "ok")
           ELSE groups' = groups /\ Respond(p, c.op, "Error")

\* await repository.instanceGroup.delete({ where: { id } })
serviceDelete(p, c) ==
  IF c.id \notin DOMAIN groups
  THEN groups' = groups /\ Respond(p, c.op, "Error")
  ELSE /\ groups' = [g \in DOMAIN groups \ {c.id} |-> groups[g]]
       /\ Respond(p, c.op, "ok")

\* InstanceGroupService.update(id, data), up to the await after its findUnique.
update(p, id, name, alias, enabled, instances, limit) ==
  /\ Admit(p, limit)
  /\ serviceFind(p, PendingCall("update", "find", id, name, alias, enabled, instances, Null))

\* InstanceGroupService.delete(id), up to its second await.
delete(p, id, limit) ==
  /\ Admit(p, limit)
  /\ serviceFind(p, PendingCall("delete", "find", id, None, None, None, None, Null))

\* InstanceGroupService.addInstance(id, instanceName), up to its second await.
addInstance(p, id, instanceName, limit) ==
  /\ Admit(p, limit)
  /\ serviceFind(p, PendingCall("addInstance", "find", id, None, None, None, None,
                                instanceName))

\* InstanceGroupService.removeInstance(id, instanceName), up to its second await.
removeInstance(p, id, instanceName, limit) ==
  /\ Admit(p, limit)
  /\ serviceFind(p, PendingCall("removeInstance", "find", id, None, None, None, None,
                                instanceName))

\* The request of process p is at the await named pc.
AtAwait(p, pc) == p \in DOMAIN pending /\ pending[p].pc = pc

\* The monitor reports a new connection state for an instance.
connectionUpdate(instanceName, isOpen) ==
  /\ envSteps + reply.n + Cardinality(DOMAIN pending) < MaxEnv
  /\ open[instanceName] # isOpen
  /\ open' = [open EXCEPT ![instanceName] = isOpen]
  /\ envSteps' = envSteps + 1
  /\ UNCHANGED <<groups, cacheOn, cache, rotationMemory, globalRotationMemory,
                 log, result, calls>>

\* ------------------------------------------------------ balanced sends
\* The balanced sends run as chains of steps, one per await of the handler;
\* the steps of different requests, and the steps of the other operations,
\* interleave.
Procs == 1..MaxConcCalls

\* The progress of one balanced send: the values the handler holds in its
\* local variables.
IdleCall ==
  [pc |-> "idle", op |-> "", alias |-> "", number |-> <<>>, groupId |-> Null,
   groupInstances |-> <<>>, contactRead |-> None, globalRead |-> None,
   sel |-> None, pick |-> Null, contactData |-> None, status |-> ""]

\* The balanced sends that have not returned.
InFlight == {q \in DOMAIN calls : calls[q].pc \notin {"idle", "done"}}

\* The balanced sends in flight whose selection is not in the log yet.
Unlogged ==
  {q \in InFlight :
     calls[q].pc \in {"active", "readContact", "readGlobal", "saveContact", "saveGlobal"}}

\* The arrival of a balanced send: it takes the first free process, fewer
\* than width sends are in flight and fewer than limit selections were made
\* or may still be made.
Arrive(p, width, limit) ==
  /\ p \in DOMAIN calls
  /\ p \notin InFlight
  /\ \A q \in DOMAIN calls : q < p => q \in InFlight
  /\ Cardinality(InFlight) < width
  /\ Len(log) + Cardinality(Unlogged) < limit

\* The request c of process p ends with an exception.
Fail(p, c, status) ==
  /\ calls' = [calls EXCEPT ![p] = [c EXCEPT !.pc = "done", !.status = status]]
  /\ result' = Response(c.op, c.alias, status)

\* The request c of process p goes on to the await named pc.
Continue(p, c, pc) ==
  /\ calls' = [calls EXCEPT ![p] = [c EXCEPT !.pc = pc]]
  /\ UNCHANGED result

\* The key of the contact descriptor of the request.
CallContactKey(c) ==
  IF c.op = "group" THEN GroupContactKey(c.groupId, c.number)
  ELSE PlainContactKey(normalizeContactNumber(c.number))

\* The selection the request computes once it has read the global descriptor.
CallSelection(c, globalRead) ==
  IF c.op = "group" THEN GroupSelection(c.contactRead, globalRead, c.groupInstances)
  ELSE PlainSelection(c.contactRead, globalRead, c.groupInstances)

\* POST /message/sendTextWithGroupBalancing arrives:
\* await instanceGroupService.findByAlias(data.alias)
callStart(p, alias, number, width, limit) ==
  LET found == findByAlias(alias)
      c == [IdleCall EXCEPT !.op = "group", !.alias = alias, !.number = number]
  IN  /\ Arrive(p, width, limit)
      /\ IF found = {}
         THEN Fail(p, c, "NotFound")
         ELSE Continue(p, [c EXCEPT !.groupId = CHOOSE g \in found : TRUE], "active")
      /\ UNCHANGED <<groups, open, cacheOn, cache, rotationMemory,
                     globalRotationMemory, log, envSteps>>

\* await instanceGroupService.getActiveInstances(group.id)
callActive(p) ==
  LET c == calls[p]
      status == getActiveInstancesStatus(c.groupId)
  IN  /\ c.pc = "active"
      /\ IF status # "ok"
         THEN Fail(p, c, status)
         ELSE Continue(p, [c EXCEPT !.groupInstances = ActiveInstances(c.groupId)],
                       "readContact")
      /\ UNCHANGED <<groups, open, cacheOn, cache, rotationMemory,
                     globalRotationMemory, log, envSteps>>

\* The ungrouped balanced send (sendTextWithBalancing) arrives: it reads the
\* registry and calls selectInstanceForContact.
plainStart(p, number, width, limit) ==
  LET availableInstances == getAvailableInstances
      c == [IdleCall EXCEPT !.op = "plain", !.number = number]
  IN  /\ Arrive(p, width, limit)
      /\ IF availableInstances = <<>>
         THEN Fail(p, c, "InternalError")
         ELSE Continue(p, [c EXCEPT !.groupInstances = availableInstances], "readContact")
      /\ UNCHANGED <<groups, open, cacheOn, cache, rotationMemory,
                     globalRotationMemory, log, envSteps>>

\* await getRotationDataFromCache(contactKey)
callReadContact(p, outcome) ==
  LET c == calls[p]
  IN  /\ c.pc = "readContact"
      /\ Continue(p, [c EXCEPT !.contactRead =
                        getRotationDataFromCache(cache, cacheOn, rotationMemory,
                                                 CallContactKey(c), outcome)],
                  "readGlobal")
      /\ UNCHANGED <<groups, open, cacheOn, cache, rotationMemory,
                     globalRotationMemory, log, envSteps>>

\* await getGlobalRotationData(), then the selection up to the first save.
callReadGlobal(p, outcome) ==
  LET c == calls[p]
      globalRead == getGlobalRotationData(cache, cacheOn, globalRotationMemory, outcome)
  IN  /\ c.pc = "readGlobal"
      /\ Continue(p, [c EXCEPT !.globalRead = globalRead,
                               !.sel = Some(CallSelection(c, globalRead))],
                  "saveContact")
      /\ UNCHANGED <<groups, open, cacheOn, cache, rotationMemory,
                     globalRotationMemory, log, envSteps>>

\* await saveRotationDataToCache(contactKey, newContactRotationData)
callSaveContact(p, outcome) ==
  LET c == calls[p]
      s1 == saveRotationDataToCache(cache, cacheOn, rotationMemory, CallContactKey(c),
                                    c.sel[1].newContactRotationData, outcome)
  IN  /\ c.pc = "saveContact"
      /\ cache' = s1[1]
      /\ rotationMemory' = s1[2]
      /\ Continue(p, c, "saveGlobal")
      /\ UNCHANGED <<groups, open, cacheOn, globalRotationMemory, log, envSteps>>

\* await saveGlobalRotationData(newGlobalRotationData); the selection returns
\* and the backend send is called.
callSaveGlobal(p, outcome) ==
  LET c == calls[p]
      s2 == saveGlobalRotationData(cache, cacheOn, globalRotationMemory,
                                   c.sel[1].newGlobalRotationData, outcome)
  IN  /\ c.pc = "saveGlobal"
      /\ cache' = s2[1]
      /\ globalRotationMemory' = s2[2]
      /\ Continue(p, [c EXCEPT !.pick = c.sel[1].selectedInstance], "send")
      /\ log' = Append(log, [op |-> c.op, groupId |-> c.groupId, number |-> c.number,
                             cands |-> SortInstances(c.groupInstances),
                             absent |-> (c.contactRead = None),
                             usedBefore |-> IF c.contactRead = None THEN <<>>
                                            ELSE c.contactRead[1].usedInstances,
                             usedAfter |-> c.sel[1].newContactRotationData.usedInstances,
                             pick |-> c.sel[1].selectedInstance])
      /\ UNCHANGED <<groups, open, cacheOn, rotationMemory, envSteps>>

\* await waMonitor.waInstances[selectedInstance].textMessage(sendData)
callSend(p, outcome) ==
  LET c == calls[p]
  IN  /\ c.pc = "send"
      /\ IF outcome = "throw"
         THEN Fail(p, c, "SendError")
         ELSE Continue(p, c, "infoContact")
      /\ UNCHANGED <<groups, open, cacheOn, cache, rotationMemory,
                     globalRotationMemory, log, envSteps>>

\* await getRotationDataFromCache of getContactBalancingInfoInGroup and of
\* getContactBalancingInfo; the ungrouped send returns its response.
callInfoContact(p, outcome) ==
  LET c == calls[p]
      contactData == getRotationDataFromCache(cache, cacheOn, rotationMemory,
                                              CallContactKey(c), outcome)
  IN  /\ c.pc = "infoContact"
      /\ IF c.op = "group"
         THEN Continue(p, [c EXCEPT !.contactData = contactData], "infoGlobal")
         ELSE /\ calls' = [calls EXCEPT ![p] =
                   [c EXCEPT !.pc = "done", !.status = "ok", !.contactData = contactData]]
              /\ result' = [Response("plain", "", "ok") EXCEPT
                              !.instanceUsed = c.pick,
                              !.balancingInfo = Some(PlainBalancingInfo(contactData))]
      /\ UNCHANGED <<groups, open, cacheOn, cache, rotationMemory,
                     globalRotationMemory, log, envSteps>>

\* await getGlobalRotationData() of getContactBalancingInfoInGroup; the
\* grouped send returns its response.
callInfoGlobal(p, outcome) ==
  LET c == calls[p]
      globalData == getGlobalRotationData(cache, cacheOn, globalRotationMemory, outcome)
      status == IF c.contactData = None \/ globalData = None THEN "TypeError" ELSE "ok"
  IN  /\ c.pc = "infoGlobal"
      /\ IF status # "ok"
         THEN Fail(p, c, status)
         ELSE /\ calls' = [calls EXCEPT ![p] = [c EXCEPT !.pc = "done", !.status = "ok"]]
              /\ result' = [Response("group", c.alias, "ok") EXCEPT
                              !.instanceUsed = c.pick,
                              !.groupId = c.groupId,
                              !.balancingInfo =
                                Some(GroupBalancingInfo(c.number, c.groupId,
                                                        c.contactData[1], globalData[1]))]
      /\ UNCHANGED <<groups, open, cacheOn, cache, rotationMemory,
                     globalRotationMemory, log, envSteps>>

\* ------------------------------------------------------- specifications
\* The memberships the first group is created with.
InitMemberships == {<<"c", "a", "b">>, <<"b", "a">>, <<"b">>}

InitGroups ==
  {[g \in {"g1"} |-> [name |-> g, alias |-> AliasOf(g), enabled |-> TRUE, instances |-> m]] :
     m \in InitMemberships}

\* The slots of the sendToAllWebhooks calls that run together.
Slots == {1, 2}

\* outcomes is history: how the sendWebhook calls of the dispatch ended.
IdleDispatch ==
  [pc |-> "idle", eventType |-> "", instanceName |-> "", result |-> "", outcomes |-> {}]

\* No administration request was made.
NoReply == [op |-> "none", status |-> "", n |-> 0]
NoSample == [input |-> <<>>, value |-> <<>>, applied |-> 0]

AdIdle ==
  /\ pending = <<>>
  /\ reply = NoReply
  /\ sample = NoSample

\* The webhook dispatcher without subscribers, at rest.
WhIdle ==
  /\ webhooks = <<>>
  /\ circuitBreakers = <<>>
  /\ now = TickMs
  /\ dispatches = [k \in Slots |-> IdleDispatch]
  /\ deliveries = <<>>
  /\ lastRequest = None
  /\ started = 0

Init ==
  /\ WhIdle
  /\ AdIdle
  /\ groups \in InitGroups
  /\ open = [i \in Instances |-> TRUE]
  /\ cacheOn \in BOOLEAN
  /\ cache = <<>>
  /\ rotationMemory = <<>>
  /\ globalRotationMemory = EmptyGlobalData
  /\ log = <<>>
  /\ result = Response("none", "", "")
  /\ envSteps = 0
  /\ calls = [p \in Procs |-> IdleCall]

\* The other parts of the program while a group service request runs.
AdminFrame ==
  UNCHANGED <<open, cacheOn, cache, rotationMemory, globalRotationMemory, log, result,
              envSteps, calls, whVars, sample>>

\* repository.instance of the balancer scenarios: every instance of the
\* registry has a record; "z" is a name without one.
InstanceTable == Instances
EnvInstanceNames == Instances \cup {"z"}

\* Balanced sends that are made one after another: a request arrives when
\* no other send is in flight.
GroupSend ==
  \E p \in Procs, alias \in Aliases, number \in Numbers :
    callStart(p, alias, number, 1, MaxCalls) /\ UNCHANGED <<whVars, adVars>>

PlainSend ==
  \E p \in Procs, number \in PlainNumbers :
    plainStart(p, number, 1, MaxCalls) /\ UNCHANGED <<whVars, adVars>>

\* The steps of a send whose cache calls and backend send succeed.
CallActive == \E p \in Procs : callActive(p) /\ UNCHANGED <<whVars, adVars>>

CallReadContact == \E p \in Procs : callReadContact(p, "ok") /\ UNCHANGED <<whVars, adVars>>

CallReadGlobal == \E p \in Procs : callReadGlobal(p, "ok") /\ UNCHANGED <<whVars, adVars>>

CallSaveContact == \E p \in Procs : callSaveContact(p, "ok") /\ UNCHANGED <<whVars, adVars>>

CallSaveGlobal == \E p \in Procs : callSaveGlobal(p, "ok") /\ UNCHANGED <<whVars, adVars>>

CallSend == \E p \in Procs : callSend(p, "ok") /\ UNCHANGED <<whVars, adVars>>

CallInfoContact == \E p \in Procs : callInfoContact(p, "ok") /\ UNCHANGED <<whVars, adVars>>

CallInfoGlobal == \E p \in Procs : callInfoGlobal(p, "ok") /\ UNCHANGED <<whVars, adVars>>

\* The group service requests made while sends run.
AddInstance ==
  \E id \in GroupIds, i \in EnvInstanceNames :
    addInstance(1, id, i, MaxEnv - envSteps) /\ AdminFrame

RemoveInstance ==
  \E id \in GroupIds, i \in Instances :
    removeInstance(1, id, i, MaxEnv - envSteps) /\ AdminFrame

UpdateEnabled ==
  \E id \in GroupIds, b \in BOOLEAN :
    update(1, id, None, None, Some(b), None, MaxEnv - envSteps) /\ AdminFrame

DeleteGroup == \E id \in GroupIds : delete(1, id, MaxEnv - envSteps) /\ AdminFrame

EnvValidate ==
  \E p \in DOMAIN pending :
    AtAwait(p, "validate") /\ serviceValidate(p, pending[p], InstanceTable) /\ AdminFrame

ServiceWrite ==
  \E p \in DOMAIN pending : AtAwait(p, "write") /\ serviceWrite(p, pending[p]) /\ AdminFrame

ServiceDelete ==
  \E p \in DOMAIN pending : AtAwait(p, "delete") /\ serviceDelete(p, pending[p]) /\ AdminFrame

ConnectionUpdate ==
  \E i \in Instances, b \in BOOLEAN : connectionUpdate(i, b) /\ UNCHANGED <<whVars, adVars>>

Next ==
  \/ GroupSend
  \/ PlainSend
  \/ CallActive
  \/ CallReadContact
  \/ CallReadGlobal
  \/ CallSaveContact
  \/ CallSaveGlobal
  \/ CallSend
  \/ CallInfoContact
  \/ CallInfoGlobal
  \/ AddInstance
  \/ RemoveInstance
  \/ UpdateEnabled
  \/ DeleteGroup
  \/ EnvValidate
  \/ ServiceWrite
  \/ ServiceDelete
  \/ ConnectionUpdate

\* Sends made one after another while the groups and the registry change.
Spec == Init /\ [][Next]_vars

\* Grouped sends to one group whose membership and registry do not change.
\* Numbers that were not used yet are interchangeable (the grouped path uses the
\* number only as a key), so a new number is always the next of the list.
RotSend ==
  \E p \in Procs, i \in 1..NumScenarioNumbers :
    /\ i <= Cardinality({log[j].number : j \in 1..Len(log)}) + 1
    /\ callStart(p, "al1", ScenarioNumber(i), 1, MaxRotCalls)
    /\ UNCHANGED <<whVars, adVars>>

NextRot ==
  \/ RotSend
  \/ CallActive
  \/ CallReadContact
  \/ CallReadGlobal
  \/ CallSaveContact
  \/ CallSaveGlobal
  \/ CallSend
  \/ CallInfoContact
  \/ CallInfoGlobal

SpecRot == Init /\ [][NextRot]_vars

\* --------------------------------------------- failing collaborators
\* The shared cache drops an entry whose time to live has passed.
cacheExpire(key) ==
  /\ cache' = [k \in DOMAIN cache \ {key} |-> cache[k]]
  /\ UNCHANGED <<groups, open, cacheOn, rotationMemory, globalRotationMemory,
                 log, result, envSteps, calls>>

\* A disabled cache is never called, so only an enabled cache can fail.
CacheFaults == IF cacheOn THEN CacheOutcomes ELSE {"ok"}

FaultyGroupSend ==
  \E p \in Procs, alias \in Aliases, number \in Numbers :
    callStart(p, alias, number, 1, MaxFaultCalls) /\ UNCHANGED <<whVars, adVars>>

FaultyPlainSend ==
  \E p \in Procs, number \in PlainNumbers :
    plainStart(p, number, 1, MaxFaultCalls) /\ UNCHANGED <<whVars, adVars>>

FaultyReadContact ==
  \E p \in Procs, outcome \in CacheFaults :
    callReadContact(p, outcome) /\ UNCHANGED <<whVars, adVars>>

FaultyReadGlobal ==
  \E p \in Procs, outcome \in CacheFaults :
    callReadGlobal(p, outcome) /\ UNCHANGED <<whVars, adVars>>

FaultySaveContact ==
  \E p \in Procs, outcome \in CacheFaults :
    callSaveContact(p, outcome) /\ UNCHANGED <<whVars, adVars>>

FaultySaveGlobal ==
  \E p \in Procs, outcome \in CacheFaults :
    callSaveGlobal(p, outcome) /\ UNCHANGED <<whVars, adVars>>

\* The backend send succeeds or fails.
CallSendOrFail ==
  \E p \in Procs, outcome \in {"ok", "throw"} :
    callSend(p, outcome) /\ UNCHANGED <<whVars, adVars>>

FaultyInfoContact ==
  \E p \in Procs, outcome \in CacheFaults :
    callInfoContact(p, outcome) /\ UNCHANGED <<whVars, adVars>>

FaultyInfoGlobal ==
  \E p \in Procs, outcome \in CacheFaults :
    callInfoGlobal(p, outcome) /\ UNCHANGED <<whVars, adVars>>

CacheExpire == \E key \in DOMAIN cache : cacheExpire(key) /\ UNCHANGED <<whVars, adVars>>

NextFault ==
  \/ FaultyGroupSend
  \/ FaultyPlainSend
  \/ CallActive
  \/ FaultyReadContact
  \/ FaultyReadGlobal
  \/ FaultySaveContact
  \/ FaultySaveGlobal
  \/ CallSendOrFail
  \/ FaultyInfoContact
  \/ FaultyInfoGlobal
  \/ CacheExpire

\* Cache calls and the backend send may fail, cache entries may expire.
SpecFault == Init /\ [][NextFault]_vars

\* ------------------------------------------------ interleaved execution
InitConc ==
  /\ WhIdle
  /\ AdIdle
  /\ groups \in InitGroups
  /\ open = [i \in Instances |-> TRUE]
  /\ cacheOn \in BOOLEAN
  /\ cache = <<>>
  /\ rotationMemory = <<>>
  /\ globalRotationMemory = EmptyGlobalData
  /\ log = <<>>
  /\ result = Response("none", "", "")
  /\ envSteps = 0
  /\ calls = [p \in Procs |-> IdleCall]

\* Balanced sends that arrive while other sends are in flight.
CallStart ==
  \E p \in Procs, alias \in Aliases, number \in Numbers :
    callStart(p, alias, number, MaxConcCalls, MaxConcCalls) /\ UNCHANGED <<whVars, adVars>>

PlainStart ==
  \E p \in Procs, number \in PlainNumbers :
    plainStart(p, number, MaxConcCalls, MaxConcCalls) /\ UNCHANGED <<whVars, adVars>>

NextConc ==
  \/ CallStart
  \/ PlainStart
  \/ CallActive
  \/ CallReadContact
  \/ CallReadGlobal
  \/ CallSaveContact
  \/ CallSaveGlobal
  \/ CallSend
  \/ CallInfoContact
  \/ CallInfoGlobal

\* Balanced sends that run concurrently.
SpecConc == InitConc /\ [][NextConc]_vars

\* ------------------------------------------------- history observations
\* Positions in the log of the grouped picks made for number n in group g.
PicksOf(g, n) ==
  {i \in 1..Len(log) : log[i].op = "group" /\ log[i].groupId = g /\ log[i].number = n}

\* The m-th smallest member of a set of positions.
Nth(S, m) == CHOOSE i \in S : Cardinality({j \in S : j <= i}) = m

\* The <<group, number>> pairs that have a grouped pick in the log.
Served == {<<log[i].groupId, log[i].number>> : i \in {j \in 1..Len(log) : log[j].op = "group"}}

\* Positions i < j hold two consecutive picks of one contact of one group.
ConsecutivePicks(i, j) ==
  /\ i < j
  /\ log[i].op = "group" /\ log[j].op = "group"
  /\ log[i].groupId = log[j].groupId /\ log[i].number = log[j].number
  /\ \A m \in (i + 1)..(j - 1) : m \notin PicksOf(log[i].groupId, log[i].number)

\* The instance that follows last in the sorted candidates (the first one when
\* last is no candidate).
GlobalNextOf(cands, last) == cands[((IndexOf(cands, last) + 1) % Len(cands)) + 1]

\* The pick at position j reset the contact's cycle: its used set was not
\* grown by the pick.
IsReset(j) == Range(log[j].usedAfter) # Range(log[j].usedBefore) \cup {log[j].pick}

\* The candidates were the same at every log position from i to j.
StableCands(i, j) == \A m \in i..j : log[m].cands = log[i].cands

\* --------------------------------------------------------------- claims
\* C1: on a group with at least two open instances, two consecutive picks for
\* the same contact never return the same instance, whatever picks for other
\* contacts (or ungrouped picks) happen in between.
C1_NoImmediateRepeat ==
  \A i, j \in 1..Len(log) :
    (ConsecutivePicks(i, j) /\ Len(log[j].cands) >= 2) => log[i].pick # log[j].pick

\* C1 witness: a contact is picked twice with another pick in between, and the
\* global round robin alone would have returned the contact's previous instance.
C1_Witness ==
  \E i, j \in 1..Len(log) :
    /\ ConsecutivePicks(i, j)
    /\ j > i + 1
    /\ Len(log[j].cands) >= 2
    /\ GlobalNextOf(log[j].cands, log[j - 1].pick) = log[i].pick
    /\ log[i].pick # log[j].pick

\* C2 as stated: with a stable candidate set of k instances, every window of k
\* consecutive picks for a contact contains every one of the k instances.
C2_EveryWindowCovers ==
  \A gn \in Served :
    LET P == PicksOf(gn[1], gn[2])
    IN  \A m \in 1..Cardinality(P) :
          LET last == Nth(P, m)
              k == Len(log[last].cands)
          IN  (m >= k /\ StableCands(Nth(P, m - k + 1), last))
                => {log[Nth(P, x)].pick : x \in (m - k + 1)..m} = Range(log[last].cands)

\* C2 amended: with a stable candidate set of k instances, the first k picks
\* for a contact that had no descriptor, and every window of k consecutive
\* picks for a contact that ends with a pick resetting the contact's cycle,
\* contain every one of the k instances.
C2_CycleWindowCovers ==
  \A gn \in Served :
    LET P == PicksOf(gn[1], gn[2])
    IN  \A m \in 1..Cardinality(P) :
          LET last == Nth(P, m)
              k == Len(log[last].cands)
          IN  (/\ m >= k
               /\ StableCands(Nth(P, m - k + 1), last)
               /\ \/ (m = k /\ log[Nth(P, 1)].absent)
                  \/ IsReset(last))
                => {log[Nth(P, x)].pick : x \in (m - k + 1)..m} = Range(log[last].cands)

\* C2 witness: on three candidates a contact completes a second cycle (its
\* fifth pick resets the cycle) while another contact was served in between.
C2_Witness ==
  \E gn \in Served :
    LET P == PicksOf(gn[1], gn[2])
    IN  /\ Cardinality(P) >= 5
        /\ Cardinality(P) < Len(log)
        /\ Len(log[Nth(P, 5)].cands) = 3
        /\ IsReset(Nth(P, 5))
        /\ {log[Nth(P, x)].pick : x \in 3..5} = Range(log[Nth(P, 5)].cands)

\* C3 as stated: with a stable candidate set of k instances, every k
\* consecutive calls made for distinct contacts cover all k instances exactly
\* once, also when the contacts already have rotation descriptors.
C3_EveryRoundCovers ==
  \A j \in 1..Len(log) :
    LET k == Len(log[j].cands)
        W == (j - k + 1)..j
    IN  (/\ j >= k
         /\ StableCands(j - k + 1, j)
         /\ \A x \in W : log[x].op = "group" /\ log[x].groupId = log[j].groupId
         /\ \A x, y \in W : x # y => log[x].number # log[y].number)
          => \A x, y \in W : x # y => log[x].pick # log[y].pick

\* C3 amended: with a stable candidate set of k instances, every k consecutive
\* calls made for distinct contacts none of which has a rotation descriptor
\* yet cover all k instances exactly once.
C3_FreshRoundCovers ==
  \A j \in 1..Len(log) :
    LET k == Len(log[j].cands)
        W == (j - k + 1)..j
    IN  (/\ j >= k
         /\ StableCands(j - k + 1, j)
         /\ \A x \in W : log[x].op = "group" /\ log[x].groupId = log[j].groupId
         /\ \A x \in W : log[x].absent
         /\ \A x, y \in W : x # y => log[x].number # log[y].number)
          => \A x, y \in W : x # y => log[x].pick # log[y].pick

\* C3 witness: after two earlier picks, three calls in a row for three new
\* contacts on three candidates took three different instances.
C3_Witness ==
  /\ Len(log) = 5
  /\ Len(log[5].cands) = 3
  /\ \A x \in 3..5 : log[x].absent
  /\ {log[x].pick : x \in 3..5} = Range(log[5].cands)
  /\ log[2].pick # log[5].cands[3]

\* The number of sends of the basic rotation scenario.
ScenarioSends == 6

\* The log holds only sends to pairwise distinct numbers.
AllDistinctNumbers == \A x, y \in 1..Len(log) : x # y => log[x].number # log[y].number

\* The log holds only sends to one number.
AllSameNumber == \A x, y \in 1..Len(log) : log[x].number = log[y].number

\* C4: on a group with three open instances and no prior rotation state, the
\* first six balanced sends land on the instances in sorted order a,b,c,a,b,c,
\* both when they go to distinct numbers and when they go to one number.
C4_BasicRotation ==
  (/\ Len(log) >= 1
   /\ \A x \in 1..Len(log) : Range(log[x].cands) = Instances
   /\ AllDistinctNumbers \/ AllSameNumber)
    => \A x \in 1..Len(log) :
         x <= ScenarioSends => log[x].pick = InstanceOrder[((x - 1) % 3) + 1]

\* C4 witness: six sends to six distinct numbers were made on the group whose
\* membership list is not in sorted order.
C4_Witness ==
  /\ Len(log) = ScenarioSends
  /\ AllDistinctNumbers
  /\ groups["g1"].instances # InstanceOrder
  /\ <<log[1].pick, log[2].pick, log[3].pick, log[4].pick, log[5].pick, log[6].pick>>
       = <<"a", "b", "c", "a", "b", "c">>

\* C5 as stated: starting from an absent descriptor on a group with k stable
\* open instances, the first k picks for the contact are pairwise distinct and
\* the (k+1)-th pick differs from the k-th.
C5_FirstCycleDistinctAnyK ==
  \A gn \in Served :
    LET P == PicksOf(gn[1], gn[2])
        k == Len(log[Nth(P, 1)].cands)
        n == Cardinality(P)
    IN  (log[Nth(P, 1)].absent /\ StableCands(Nth(P, 1), Nth(P, n)))
          => /\ \A x, y \in 1..n :
                  (x < y /\ y <= k) => log[Nth(P, x)].pick # log[Nth(P, y)].pick
             /\ n >= k + 1 => log[Nth(P, k + 1)].pick # log[Nth(P, k)].pick

\* C5 amended: the same, on a group with k >= 2 stable open instances.
C5_FirstCycleDistinct ==
  \A gn \in Served :
    LET P == PicksOf(gn[1], gn[2])
        k == Len(log[Nth(P, 1)].cands)
        n == Cardinality(P)
    IN  (k >= 2 /\ log[Nth(P, 1)].absent /\ StableCands(Nth(P, 1), Nth(P, n)))
          => /\ \A x, y \in 1..n :
                  (x < y /\ y <= k) => log[Nth(P, x)].pick # log[Nth(P, y)].pick
             /\ n >= k + 1 => log[Nth(P, k + 1)].pick # log[Nth(P, k)].pick

\* C5 witness: on three candidates a contact was picked four times, with
\* picks for other contacts in between.
C5_Witness ==
  \E gn \in Served :
    LET P == PicksOf(gn[1], gn[2])
    IN  /\ Cardinality(P) = 4
        /\ Len(log) > 4
        /\ Len(log[Nth(P, 1)].cands) = 3
        /\ log[Nth(P, 1)].absent
        /\ Nth(P, 4) > Nth(P, 1) + 3
        /\ log[Nth(P, 4)].pick # log[Nth(P, 3)].pick

\* A step that made a grouped selection.
GroupPickStep == Len(log') = Len(log) + 1 /\ log'[Len(log')].op = "group"

\* The grouped send of process p gets the answer of getActiveInstances in
\* this step.
ActiveStep(p) == calls[p].pc = "active" /\ calls'[p].pc # "active"

\* C6: every instance a grouped balanced send selects is, at the time of the
\* call (when the request reads the group), a member of the group's instances
\* list that reports state open: the candidates getActiveInstances returns are
\* open members and the pick is one of the candidates, even while rotation
\* descriptors still name a removed or closed instance.
C6_PickIsOpenMember ==
  [][/\ \A p \in Procs :
          (ActiveStep(p) /\ calls'[p].pc = "readContact")
            => \A i \in Range(calls'[p].groupInstances) :
                 i \in Range(groups[calls[p].groupId].instances) /\ open[i]
     /\ GroupPickStep =>
          LET e == log'[Len(log')]
          IN  e.pick \in Range(e.cands)]_vars

\* C6 witness: a contact was picked again after its previous instance had
\* left the candidates (removed from the group or no longer open).
C6_Witness ==
  \E i, j \in 1..Len(log) :
    /\ ConsecutivePicks(i, j)
    /\ log[i].pick \notin Range(log[j].cands)
    /\ log[j - 1].pick = log[i].pick

\* C8 as stated: a balanced send whose alias resolves to a disabled group is
\* rejected as a bad request (400), not as not found.
C8_DisabledIsBadRequest ==
  [][\A p \in Procs :
       (/\ ActiveStep(p)
        /\ calls[p].groupId \in DOMAIN groups
        /\ ~groups[calls[p].groupId].enabled)
         => /\ calls'[p].status = "BadRequest"
            /\ result'.status = "BadRequest"]_vars

\* C9: a balanced send to an enabled group none of whose members is open fails
\* as a bad request (400), selects and sends nothing and leaves every rotation
\* descriptor unchanged.
C9_NoActiveInstance ==
  [][\A p \in Procs :
       (/\ ActiveStep(p)
        /\ calls[p].groupId \in DOMAIN groups
        /\ groups[calls[p].groupId].enabled
        /\ \A i \in Range(groups[calls[p].groupId].instances) : ~open[i])
         => /\ calls'[p].pc = "done"
            /\ calls'[p].pick = Null
            /\ result' = Response("group", calls[p].alias, "BadRequest")
            /\ UNCHANGED <<cache, rotationMemory, globalRotationMemory, log>>]_vars

\* C9 witness: rotation descriptors exist and the last balanced send was
\* refused as a bad request because no member of the enabled group is open.
C9_Witness ==
  /\ result.op = "group"
  /\ result.status = "BadRequest"
  /\ "g1" \in DOMAIN groups
  /\ groups["g1"].enabled
  /\ \A i \in Range(groups["g1"].instances) : ~open[i]
  /\ Len(log) >= 1
  /\ globalRotationMemory.lastUsedInstance # Null

\* The requests whose selection has returned.
Selected ==
  {p \in Procs : /\ calls[p].op = "group"
                 /\ calls[p].pc \in {"send", "infoContact", "infoGlobal", "done"}
                 /\ calls[p].pick # Null}

RECURSIVE SerialRun(_, _)
\* The descriptors and picks after the requests of the list ran one after
\* another, in list order, from the rotation state st.
SerialRun(order, st) ==
  IF order = <<>> THEN st
  ELSE LET c == calls[Head(order)]
           key == GroupContactKey(c.groupId, c.number)
           contactRead == IF key \in DOMAIN st.contacts THEN Some(st.contacts[key]) ELSE None
           sel == GroupSelection(contactRead, Some(st.global), c.groupInstances)
       IN  SerialRun(Tail(order),
                     [contacts |-> (key :> sel.newContactRotationData) @@ st.contacts,
                      global |-> sel.newGlobalRotationData,
                      picks |-> Append(st.picks, sel.selectedInstance)])

\* The rotation state is the one the serial execution `order` leaves.
MatchesSerial(order) ==
  LET st == SerialRun(order, [contacts |-> <<>>, global |-> EmptyGlobalData, picks |-> <<>>])
  IN  /\ \A i \in 1..Len(order) : calls[order[i]].pick = st.picks[i]
      /\ getGlobalRotationData(cache, cacheOn, globalRotationMemory, "ok") = Some(st.global)
      /\ \A key \in DOMAIN st.contacts :
           getRotationDataFromCache(cache, cacheOn, rotationMemory, key, "ok")
             = Some(st.contacts[key])

\* C7 as stated: two overlapping selections for the same contact of a group
\* with at least two candidates never return the same instance, and the
\* descriptors they leave are those of one of the two serial orders.
C7_SelectionIsAtomic ==
  \A p, q \in Procs :
    (/\ p # q
     /\ Selected = {p, q}
     /\ \A r \in Procs \ {p, q} : calls[r].pc \in {"idle", "done"}
     /\ calls[p].groupId = calls[q].groupId
     /\ calls[p].number = calls[q].number
     /\ Len(calls[p].groupInstances) >= 2)
      => /\ calls[p].pick # calls[q].pick
         /\ MatchesSerial(<<p, q>>) \/ MatchesSerial(<<q, p>>)

\* C10 as stated: a grouped balanced send that finds an enabled group with an
\* open member and whose backend send succeeds returns the send result with
\* instanceUsed and balancingInfo, whatever cache calls fail.
C10_NoFailureForCacheReasons ==
  (result.op = "group" /\ result.status \notin {"NotFound", "BadRequest", "SendError"})
    => /\ result.status = "ok"
       /\ result.instanceUsed # Null
       /\ result.balancingInfo # None

\* ====================================================== webhook dispatcher
\* ---------------------------------------------------- webhook constants
CIRCUIT_BREAKER_THRESHOLD == 5
CIRCUIT_BREAKER_TIMEOUT == 60000
DefaultMaxAttempts == 3
DefaultNonRetryableStatusCodes == {400, 401, 403, 404, 422}

WebhookIds == {"w1", "w2"}
\* The statuses a reachable subscriber answers with.
ResponseStatuses == {200, 404, 500}

\* ------------------------------------------------------ request building
\* The text of a status code (lastExecutionStatus is a text column).
StatusText(status) ==
  CASE status = 200 -> "200"
    [] status = 404 -> "404"
    [] status = 500 -> "500"
    [] OTHER -> "0"

\* error.message of a failed request.
ErrorMessage(status) ==
  IF status = 0 THEN <<"timeout of request exceeded">>
  ELSE <<"Request failed with status code", StatusText(status)>>

\* The request resolves: a response with a 2xx status.
IsSuccess(status) == status >= 200 /\ status < 300

\* The envelope sent to the subscriber (the timestamp is left out).
Payload(id, eventType, instanceName) ==
  [event |-> eventType, instance |-> instanceName, webhook |-> id]

configureAuthentication(headers, authConfig) ==
  IF authConfig.type = "bearer" /\ authConfig.token # ""
  THEN {h \in headers : h[1] # "Authorization"}
         \cup {<<"Authorization", <<"Bearer", authConfig.token>>>>}
  ELSE headers

\* The header of the HMAC of the body: '<algorithm>=<hex digest>'.
generateWebhookSignature(payload, secret, algorithm) ==
  <<algorithm, "=", <<"hmac", algorithm, secret, payload>>>>

\* The headers of the requests of a delivery: the static headers with the
\* authentication header, over the content type.
RequestHeaders(webhook) ==
  LET headers == configureAuthentication(webhook.headers, webhook.authentication)
  IN  {h \in {<<"Content-Type", <<"application/json">>>>} :
         \A g \in headers : g[1] # h[1]} \cup headers

\* ------------------------------------------------------------ filters
\* The subscriber takes events of this type.
EventMatches(webhook, eventType) ==
  ~(webhook.events # {} /\ eventType \notin webhook.events)

\* The subscriber takes events of this instance.
InstanceMatches(filterConfig, instanceName) ==
  IF instanceName # ""
  THEN /\ ~(filterConfig.instances # {} /\ instanceName \notin filterConfig.instances)
       /\ ~(filterConfig.excludeInstances # {}
            /\ instanceName \in filterConfig.excludeInstances)
  ELSE TRUE

\* ------------------------------------------------------------- retries
\* The configured number of attempts is ignored.
MaxRetryAttempts_Default(retryConfig) == DefaultMaxAttempts

MaxRetryAttempts(retryConfig) ==
  IF retryConfig.maxAttempts = 0 THEN DefaultMaxAttempts ELSE retryConfig.maxAttempts

NonRetryableStatusCodes(retryConfig) ==
  IF retryConfig.nonRetryableStatusCodes = None
  THEN DefaultNonRetryableStatusCodes
  ELSE retryConfig.nonRetryableStatusCodes[1]

\* The status of the response is never found.
IsNonRetryable_Never(statusCode, retryConfig) == FALSE

IsNonRetryable(statusCode, retryConfig) ==
  statusCode # 0 /\ statusCode \in NonRetryableStatusCodes(retryConfig)

IsLastAttempt(attempts, retryConfig) == attempts = MaxRetryAttempts(retryConfig)

\* The condition of the retry loop.
CanAttempt(attempts, retryConfig) == attempts < MaxRetryAttempts(retryConfig)

\* ----------------------------------------------------- circuit breaker
ClosedBreaker == [failures |-> 0, lastFailureTime |-> 0, state |-> "CLOSED"]

\* The cooldown of an open breaker has passed.
CooldownElapsed(circuitState, t) ==
  t - circuitState.lastFailureTime > CIRCUIT_BREAKER_TIMEOUT

\* The state in which the gate finds the breaker of a subscriber; a breaker
\* is created closed.
GateState(cbs, id) == IF id \in DOMAIN cbs THEN cbs[id].state ELSE "CLOSED"

\* The gate: whether the delivery may proceed, and the breakers afterwards.
canExecuteWebhook(cbs, id, t) ==
  IF id \notin DOMAIN cbs
  THEN [allowed |-> TRUE, breakers |-> (id :> ClosedBreaker) @@ cbs]
  ELSE LET circuitState == cbs[id]
       IN  CASE circuitState.state = "CLOSED" -> [allowed |-> TRUE, breakers |-> cbs]
             [] circuitState.state = "OPEN" ->
                  IF CooldownElapsed(circuitState, t)
                  THEN [allowed |-> TRUE,
                        breakers |-> [cbs EXCEPT ![id].state = "HALF_OPEN"]]
                  ELSE [allowed |-> FALSE, breakers |-> cbs]
             [] OTHER -> [allowed |-> TRUE, breakers |-> cbs]

\* A success forgets the failures and leaves the state as it is.
recordWebhookSuccess_CountOnly(cbs, id) ==
  IF id \in DOMAIN cbs
  THEN [cbs EXCEPT ![id].failures = 0, ![id].lastFailureTime = 0]
  ELSE cbs

\* A success closes the breaker and keeps what it had counted.
recordWebhookSuccess_KeepCount(cbs, id) ==
  IF id \in DOMAIN cbs THEN [cbs EXCEPT ![id].state = "CLOSED"] ELSE cbs

recordWebhookSuccess(cbs, id) ==
  IF id \in DOMAIN cbs THEN [cbs EXCEPT ![id] = ClosedBreaker] ELSE cbs

\* The breaker opens only on the failure that reaches the threshold.
recordWebhookFailure_ExactThreshold(cbs, id, t) ==
  LET circuitState == IF id \in DOMAIN cbs THEN cbs[id] ELSE ClosedBreaker
      failures == circuitState.failures + 1
  IN  (id :> [failures |-> failures,
              lastFailureTime |-> t,
              state |-> IF failures = CIRCUIT_BREAKER_THRESHOLD
                        THEN "OPEN" ELSE circuitState.state]) @@ cbs

\* The breaker opens on the failure after the threshold.
recordWebhookFailure_Late(cbs, id, t) ==
  LET circuitState == IF id \in DOMAIN cbs THEN cbs[id] ELSE ClosedBreaker
      failures == circuitState.failures + 1
  IN  (id :> [failures |-> failures,
              lastFailureTime |-> t,
              state |-> IF failures > CIRCUIT_BREAKER_THRESHOLD
                        THEN "OPEN" ELSE circuitState.state]) @@ cbs

recordWebhookFailure(cbs, id, t) ==
  LET circuitState == IF id \in DOMAIN cbs THEN cbs[id] ELSE ClosedBreaker
      failures == circuitState.failures + 1
  IN  (id :> [failures |-> failures,
              lastFailureTime |-> t,
              state |-> IF failures >= CIRCUIT_BREAKER_THRESHOLD
                        THEN "OPEN" ELSE circuitState.state]) @@ cbs

\* ----------------------------------------------------------- statistics
\* The counters are written from a value that was read before.
updateWebhookStats_Overwrite(whs, id, success, errorMessage, outcome) ==
  IF outcome = "throw" \/ id \notin DOMAIN whs THEN whs
  ELSE [whs EXCEPT
          ![id].totalExecutions = 1,
          ![id].successfulExecutions = IF success THEN 1 ELSE @,
          ![id].failedExecutions = IF success THEN @ ELSE 1,
          ![id].lastExecutionStatus = IF success THEN "success" ELSE "failed",
          ![id].lastExecutionError = IF success THEN <<>> ELSE errorMessage]

\* The atomic counter update of one execution; a failing repository leaves
\* the record as it is.
updateWebhookStats(whs, id, success, errorMessage, outcome) ==
  IF outcome = "throw" \/ id \notin DOMAIN whs THEN whs
  ELSE [whs EXCEPT
          ![id].totalExecutions = @ + 1,
          ![id].successfulExecutions = IF success THEN @ + 1 ELSE @,
          ![id].failedExecutions = IF success THEN @ ELSE @ + 1,
          ![id].lastExecutionStatus = IF success THEN "success" ELSE "failed",
          ![id].lastExecutionError = IF success THEN <<>> ELSE errorMessage]

\* The test call counts its outcome and not the execution.
testWebhookStats_NoTotal(whs, id, status, errorMessage) ==
  IF id \notin DOMAIN whs THEN whs
  ELSE [whs EXCEPT
          ![id].successfulExecutions = IF IsSuccess(status) THEN @ + 1 ELSE @,
          ![id].failedExecutions = IF IsSuccess(status) THEN @ ELSE @ + 1,
          ![id].lastExecutionStatus = StatusText(status),
          ![id].lastExecutionError = IF IsSuccess(status) THEN <<>> ELSE errorMessage]

\* The UPDATE of the test call: the counters are incremented in the row as it
\* is now; a row that is gone is not written.
testWebhookStats(whs, id, status, errorMessage) ==
  IF id \notin DOMAIN whs THEN whs
  ELSE [whs EXCEPT
          ![id].totalExecutions = @ + 1,
          ![id].successfulExecutions = IF IsSuccess(status) THEN @ + 1 ELSE @,
          ![id].failedExecutions = IF IsSuccess(status) THEN @ ELSE @ + 1,
          ![id].lastExecutionStatus = StatusText(status),
          ![id].lastExecutionError = IF IsSuccess(status) THEN <<>> ELSE errorMessage]

\* ------------------------------------------------------------ dispatch
\* No response was received yet.
NoStatus == -1

\* A sendWebhook call that waits for its subscriber record; requests, updates,
\* failures, lastStatus and gateState are history: the requests issued, the
\* statistics updates applied, the failures reported to the breaker, the last
\* response, the state in which the gate found the breaker.
NewDelivery(eventType, instanceName) ==
  [pc |-> "loading", eventType |-> eventType, instanceName |-> instanceName,
   retryConfig |-> None, request |-> None, attempts |-> 0, success |-> FALSE, error |-> <<>>,
   outcome |-> "", requests |-> 0, updates |-> 0, failures |-> 0,
   lastStatus |-> NoStatus, gateState |-> ""]

\* The sendWebhook calls of the dispatch in slot k.
DeliveriesOf(ds, k) == {d \in DOMAIN ds : d[1] = k}

\* Promise.allSettled: every call has settled.
AllSettled(ds, k) == \A d \in DeliveriesOf(ds, k) : ds[d].pc = "settled"

\* The delivery ends with this outcome.
Settle(d, outcome) == [d EXCEPT !.pc = "settled", !.outcome = outcome]

\* The HTTP request a delivery issues.
Request(id, k, webhook, d) ==
  Some([id |-> id, slot |-> k, headers |-> RequestHeaders(webhook),
        body |-> Payload(id, d.eventType, d.instanceName)])

\* The listing of the subscribers failed: the error is logged and the call
\* rejects.
sendToAllWebhooksResult_Rethrow(listing) ==
  IF listing = "throw" THEN "rejected" ELSE "resolved"

\* How sendToAllWebhooks ends for its caller: its catch block logs the error
\* of a failed listing, and the settled calls are not inspected.
sendToAllWebhooksResult(listing) == "resolved"

\* sendToAllWebhooks up to its wait: the enabled subscribers are listed and
\* one sendWebhook call is started for each; a failing listing is logged.
sendToAllWebhooks(k, eventType, instanceName, outcome, limit) ==
  /\ started < limit
  /\ dispatches[k].pc \in {"idle", "returned"}
  /\ LET others == [d \in DOMAIN deliveries \ DeliveriesOf(deliveries, k) |-> deliveries[d]]
         ids == {id \in DOMAIN webhooks : webhooks[id].enabled}
     IN  IF outcome = "throw"
         THEN /\ dispatches' = [dispatches EXCEPT ![k] =
                   [pc |-> "returned", eventType |-> eventType,
                    instanceName |-> instanceName,
                    result |-> sendToAllWebhooksResult(outcome), outcomes |-> {}]]
              /\ deliveries' = others
         ELSE /\ dispatches' = [dispatches EXCEPT ![k] =
                   [pc |-> "waiting", eventType |-> eventType,
                    instanceName |-> instanceName, result |-> "", outcomes |-> {}]]
              /\ deliveries' =
                   [d \in {<<k, id>> : id \in ids} |-> NewDelivery(eventType, instanceName)]
                     @@ others
  /\ started' = started + 1
  /\ UNCHANGED <<webhooks, circuitBreakers, now, lastRequest>>

\* sendToAllWebhooks after its wait: it returns once every call has settled,
\* and its calls are forgotten.
dispatchReturn(k) ==
  /\ dispatches[k].pc = "waiting"
  /\ AllSettled(deliveries, k)
  /\ dispatches' = [dispatches EXCEPT
       ![k].pc = "returned",
       ![k].result = sendToAllWebhooksResult("ok"),
       ![k].outcomes = {deliveries[d].outcome : d \in DeliveriesOf(deliveries, k)}]
  /\ deliveries' =
       [d \in DOMAIN deliveries \ DeliveriesOf(deliveries, k) |-> deliveries[d]]
  /\ UNCHANGED <<webhooks, circuitBreakers, now, lastRequest, started>>

\* sendWebhook from the arrival of the subscriber record to its first
\* request: enabled check, breaker gate, event and instance filters.
sendWebhook(k, id, outcome) ==
  /\ <<k, id>> \in DOMAIN deliveries
  /\ deliveries[<<k, id>>].pc = "loading"
  /\ LET d == deliveries[<<k, id>>]
         gate == canExecuteWebhook(circuitBreakers, id, now)
     IN  IF outcome = "throw"
         THEN /\ circuitBreakers' = recordWebhookFailure(circuitBreakers, id, now)
              /\ deliveries' = [deliveries EXCEPT ![<<k, id>>] =
                   Settle([d EXCEPT !.failures = @ + 1], "error")]
              /\ UNCHANGED lastRequest
         ELSE IF id \notin DOMAIN webhooks \/ ~webhooks[id].enabled
         THEN /\ deliveries' = [deliveries EXCEPT ![<<k, id>>] = Settle(d, "disabled")]
              /\ UNCHANGED <<circuitBreakers, lastRequest>>
         ELSE IF ~gate.allowed
         THEN /\ circuitBreakers' = gate.breakers
              /\ deliveries' = [deliveries EXCEPT ![<<k, id>>] = Settle(d, "denied")]
              /\ UNCHANGED lastRequest
         ELSE IF ~EventMatches(webhooks[id], d.eventType)
                 \/ ~InstanceMatches(webhooks[id].filterConfig, d.instanceName)
         THEN /\ circuitBreakers' = gate.breakers
              /\ deliveries' = [deliveries EXCEPT ![<<k, id>>] = Settle(d, "filtered")]
              /\ UNCHANGED lastRequest
         ELSE IF ~CanAttempt(0, webhooks[id].retryConfig)
         THEN /\ circuitBreakers' = recordWebhookSuccess(gate.breakers, id)
              /\ deliveries' = [deliveries EXCEPT ![<<k, id>>] = Settle(d, "success")]
              /\ UNCHANGED lastRequest
         ELSE /\ circuitBreakers' = gate.breakers
              /\ deliveries' = [deliveries EXCEPT ![<<k, id>>] =
                   [d EXCEPT !.pc = "posting",
                             !.retryConfig = Some(webhooks[id].retryConfig),
                             !.request = Request(id, k, webhooks[id], d),
                             !.requests = 1,
                             !.gateState = GateState(circuitBreakers, id)]]
              /\ lastRequest' = Request(id, k, webhooks[id], d)
  /\ UNCHANGED <<webhooks, now, dispatches, started>>

\* retryWebhookRequest when the response of an attempt arrives.
httpResponse(k, id, status) ==
  /\ <<k, id>> \in DOMAIN deliveries
  /\ deliveries[<<k, id>>].pc = "posting"
  /\ LET d == deliveries[<<k, id>>]
         retryConfig == d.retryConfig[1]
         attempts == d.attempts + 1
         r == [d EXCEPT !.lastStatus = status]
     IN  deliveries' = [deliveries EXCEPT ![<<k, id>>] =
           IF IsSuccess(status)
           THEN [r EXCEPT !.pc = "stats", !.success = TRUE, !.error = <<>>]
           ELSE IF IsNonRetryable(status, retryConfig)
           THEN [r EXCEPT !.pc = "stats", !.attempts = attempts, !.success = FALSE,
                          !.error = ErrorMessage(status)]
           ELSE IF IsLastAttempt(attempts, retryConfig)
           THEN [r EXCEPT !.pc = "stats", !.attempts = attempts, !.success = FALSE,
                          !.error = ErrorMessage(status)]
           ELSE [r EXCEPT !.pc = "sleeping", !.attempts = attempts]]
  /\ UNCHANGED <<webhooks, circuitBreakers, now, dispatches, lastRequest, started>>

\* The backoff sleep never resolves.
retryWake_NoWake(k, id) ==
  /\ <<k, id>> \in DOMAIN deliveries
  /\ deliveries[<<k, id>>].pc = "sleeping"
  /\ UNCHANGED whVars

\* retryWebhookRequest after the backoff sleep: the next attempt is issued
\* while the loop condition holds; a loop that ends returns without an error.
retryWake(k, id) ==
  /\ <<k, id>> \in DOMAIN deliveries
  /\ deliveries[<<k, id>>].pc = "sleeping"
  /\ LET d == deliveries[<<k, id>>]
     IN  IF CanAttempt(d.attempts, d.retryConfig[1])
         THEN /\ deliveries' = [deliveries EXCEPT ![<<k, id>>].pc = "posting",
                                                  ![<<k, id>>].requests = @ + 1]
              /\ lastRequest' = d.request
              /\ UNCHANGED circuitBreakers
         ELSE /\ deliveries' = [deliveries EXCEPT ![<<k, id>>] = Settle(d, "success")]
              /\ circuitBreakers' = recordWebhookSuccess(circuitBreakers, id)
              /\ UNCHANGED lastRequest
  /\ UNCHANGED <<webhooks, now, dispatches, started>>

\* The statistics update of a delivery and the end of sendWebhook: a success
\* resets the breaker, a failure is counted by it.
statsUpdated(k, id, outcome) ==
  /\ <<k, id>> \in DOMAIN deliveries
  /\ deliveries[<<k, id>>].pc = "stats"
  /\ LET d == deliveries[<<k, id>>]
         applied == outcome = "ok" /\ id \in DOMAIN webhooks
     IN  /\ webhooks' = updateWebhookStats(webhooks, id, d.success, d.error, outcome)
         /\ circuitBreakers' =
              IF d.success THEN recordWebhookSuccess(circuitBreakers, id)
              ELSE recordWebhookFailure(circuitBreakers, id, now)
         /\ deliveries' = [deliveries EXCEPT ![<<k, id>>] =
              Settle([d EXCEPT !.updates = IF applied THEN @ + 1 ELSE @,
                               !.failures = IF d.success THEN @ ELSE @ + 1],
                     IF d.success THEN "success" ELSE "failed")]
  /\ UNCHANGED <<now, dispatches, lastRequest, started>>

\* ------------------------------------------- subscriber administration
\* A request of the subscriber administration that waits for the repository
\* or for the subscriber. name, url, enabled and retryConfig are None where
\* the body leaves the field out; read is the enabled flag the request got
\* from its SELECT; status and error are the outcome of the test request.
WebhookCall(op, pc, id, name, url, enabled, retryConfig) ==
  [op |-> op, pc |-> pc, id |-> id, name |-> name, url |-> url,
   enabled |-> enabled, retryConfig |-> retryConfig,
   read |-> FALSE, status |-> 0, error |-> <<>>]

\* A request that carries only the id of the subscriber.
IdCall(op, pc, id) == WebhookCall(op, pc, id, None, None, None, None)

\* The message of JSON.parse for a column that is an object already.
JsonParseError == <<"\"[object Object]\" is not valid JSON">>

\* The headers of the test request: the static headers over the content
\* type and the user agent, then the authentication header.
TestRequestHeaders(webhook) ==
  LET defaults == {<<"Content-Type", <<"application/json">>>>,
                   <<"User-Agent", <<"Evolution-API-Webhook/1.0">>>>}
      headers == {h \in defaults : \A g \in webhook.headers : g[1] # h[1]}
                   \cup webhook.headers
  IN  configureAuthentication(headers, webhook.authentication)

\* The test request: event 'webhook_test', no instance, no dispatch slot.
TestRequest(id, webhook) ==
  Some([id |-> id, slot |-> 0, headers |-> TestRequestHeaders(webhook),
        body |-> Payload(id, "webhook_test", "")])

\* testWebhook up to its request: the row is read; with the JSON columns
\* read as text the request is built and posted, with the columns read as
\* objects JSON.parse throws and the call goes on to record a failure with
\* status 0 without a request.
testWebhook(p, id, jsonParsed, limit) ==
  /\ Admit(p, limit)
  /\ IF id \notin DOMAIN webhooks
     THEN Respond(p, "testWebhook", "NotFound") /\ UNCHANGED lastRequest
     ELSE IF jsonParsed
     THEN /\ Proceed(p, [IdCall("testWebhook", "stats", id) EXCEPT
                           !.error = JsonParseError])
          /\ UNCHANGED lastRequest
     ELSE /\ Proceed(p, IdCall("testWebhook", "posting", id))
          /\ lastRequest' = TestRequest(id, webhooks[id])
  /\ UNCHANGED <<webhooks, circuitBreakers, now, dispatches, deliveries, started>>

\* The subscriber answers the test request (status 0: no response).
testResponse(p, status) ==
  /\ p \in DOMAIN pending
  /\ pending[p].pc = "posting"
  /\ Proceed(p, [pending[p] EXCEPT
                   !.pc = "stats", !.status = status,
                   !.error = IF IsSuccess(status) THEN <<>> ELSE ErrorMessage(status)])
  /\ UNCHANGED whVars

\* The counter update of the test call and its answer, which has status 200
\* for a failed request as well.
testStats(p) ==
  /\ p \in DOMAIN pending
  /\ pending[p].pc = "stats"
  /\ webhooks' = testWebhookStats(webhooks, pending[p].id, pending[p].status,
                                  pending[p].error)
  /\ Respond(p, "testWebhook", "ok")
  /\ UNCHANGED <<circuitBreakers, now, dispatches, deliveries, lastRequest, started>>

\* toggleEnabled up to its write: the row is read.
toggleEnabled(p, id, limit) ==
  /\ Admit(p, limit)
  /\ IF id \notin DOMAIN webhooks
     THEN Respond(p, "toggleEnabled", "NotFound")
     ELSE Proceed(p, [IdCall("toggleEnabled", "toggle", id) EXCEPT
                        !.read = webhooks[id].enabled])
  /\ UNCHANGED whVars

\* The write of toggleEnabled: the negation of the flag that was read; the
\* write of a row that is gone fails.
toggleWrite(p) ==
  /\ p \in DOMAIN pending
  /\ pending[p].pc = "toggle"
  /\ IF pending[p].id \notin DOMAIN webhooks
     THEN Respond(p, "toggleEnabled", "InternalError") /\ UNCHANGED webhooks
     ELSE /\ webhooks' = [webhooks EXCEPT ![pending[p].id].enabled = ~pending[p].read]
          /\ Respond(p, "toggleEnabled", "ok")
  /\ UNCHANGED <<circuitBreakers, now, dispatches, deliveries, lastRequest, started>>

\* ExternalWebhookService.delete up to its write: the row is read.
deleteWebhook(p, id, limit) ==
  /\ Admit(p, limit)
  /\ IF id \notin DOMAIN webhooks
     THEN Respond(p, "service.delete", "NotFound")
     ELSE Proceed(p, IdCall("service.delete", "delete", id))
  /\ UNCHANGED whVars

\* The delete of ExternalWebhookService.delete; the delete of a row that is
\* gone fails.
deleteWrite(p) ==
  /\ p \in DOMAIN pending
  /\ pending[p].pc = "delete"
  /\ IF pending[p].id \notin DOMAIN webhooks
     THEN Respond(p, "service.delete", "InternalError") /\ UNCHANGED webhooks
     ELSE /\ webhooks' = [w \in DOMAIN webhooks \ {pending[p].id} |-> webhooks[w]]
          /\ Respond(p, "service.delete", "ok")
  /\ UNCHANGED <<circuitBreakers, now, dispatches, deliveries, lastRequest, started>>

\* ExternalWebhookController.delete: one DELETE ... RETURNING.
controllerDelete(p, id, limit) ==
  /\ Admit(p, limit)
  /\ IF id \notin DOMAIN webhooks
     THEN Respond(p, "controller.delete", "NotFound") /\ UNCHANGED webhooks
     ELSE /\ webhooks' = [w \in DOMAIN webhooks \ {id} |-> webhooks[w]]
          /\ Respond(p, "controller.delete", "ok")
  /\ UNCHANGED <<circuitBreakers, now, dispatches, deliveries, lastRequest, started>>

\* Time passes.
tick ==
  /\ now < (MaxTicks + 1) * TickMs
  /\ now' = now + TickMs
  /\ UNCHANGED <<webhooks, circuitBreakers, dispatches, deliveries, lastRequest, started>>

\* ------------------------------------------------ webhook specifications
\* A subscriber record as create stores it, with its counters at zero.
Subscriber(enabled, events, headers, authentication, retryConfig, securityConfig, filterConfig) ==
  [enabled |-> enabled, events |-> events, headers |-> headers,
   authentication |-> authentication, retryConfig |-> retryConfig,
   securityConfig |-> securityConfig, filterConfig |-> filterConfig,
   totalExecutions |-> 0, successfulExecutions |-> 0, failedExecutions |-> 0,
   lastExecutionStatus |-> "", lastExecutionError |-> <<>>]

NoAuthentication == [type |-> "none", token |-> ""]
NoSecurity ==
  [enableSignatureValidation |-> FALSE, signatureSecret |-> "",
   signatureHeader |-> "", signatureAlgorithm |-> ""]
SignedSecurity ==
  [enableSignatureValidation |-> TRUE, signatureSecret |-> "0123456789abcdef",
   signatureHeader |-> "X-Webhook-Signature", signatureAlgorithm |-> "sha256"]
NoFilter == [instances |-> {}, excludeInstances |-> {}]

\* A subscriber of every event with the retry configuration left out.
PlainSubscriber ==
  Subscriber(TRUE, {}, {}, NoAuthentication,
             [maxAttempts |-> 0, nonRetryableStatusCodes |-> None],
             NoSecurity, NoFilter)

\* A signed subscriber of one event type and one instance that does not
\* retry a 404.
FilteredSubscriber ==
  Subscriber(TRUE, {"MESSAGES_UPSERT"}, {<<"X-Source", <<"evolution">>>>},
             [type |-> "bearer", token |-> "t0k3n"],
             [maxAttempts |-> 2, nonRetryableStatusCodes |-> Some({404})],
             SignedSecurity,
             [instances |-> {"a"}, excludeInstances |-> {}])

\* A subscriber that excludes one instance, tries once and retries any status.
ExcludingSubscriber ==
  Subscriber(TRUE, {}, {}, NoAuthentication,
             [maxAttempts |-> 1, nonRetryableStatusCodes |-> Some({})],
             NoSecurity,
             [instances |-> {}, excludeInstances |-> {"b"}])

InitWebhooks ==
  {("w1" :> PlainSubscriber), ("w1" :> FilteredSubscriber), ("w1" :> ExcludingSubscriber)}

\* The events that are dispatched: type and instance name.
Events ==
  {<<"MESSAGES_UPSERT", "a">>, <<"MESSAGES_UPSERT", "b">>, <<"MESSAGES_UPSERT", "">>,
   <<"QRCODE_UPDATED", "a">>}

\* The slot a new dispatch takes: the first one that is free.
FreeSlot(k) ==
  /\ dispatches[k].pc \in {"idle", "returned"}
  /\ \A j \in Slots : j < k => dispatches[j].pc = "waiting"

\* The load balancer at rest.
LbIdle ==
  /\ groups \in {g \in InitGroups : g["g1"].instances = <<"b">>}
  /\ open = [i \in Instances |-> TRUE]
  /\ cacheOn = FALSE
  /\ cache = <<>>
  /\ rotationMemory = <<>>
  /\ globalRotationMemory = EmptyGlobalData
  /\ log = <<>>
  /\ result = Response("none", "", "")
  /\ envSteps = 0
  /\ calls = <<>>

InitWh ==
  /\ LbIdle
  /\ AdIdle
  /\ webhooks \in InitWebhooks
  /\ circuitBreakers = <<>>
  /\ now = TickMs
  /\ dispatches = [k \in Slots |-> IdleDispatch]
  /\ deliveries = <<>>
  /\ lastRequest = None
  /\ started = 0

\* The process of the administration requests.
WhAdmin == 1

Dispatch ==
  \E k \in Slots, e \in Events :
    /\ FreeSlot(k)
    /\ sendToAllWebhooks(k, e[1], e[2], "ok",
                         MaxDispatches - reply.n - Cardinality(DOMAIN pending))
    /\ UNCHANGED <<lbVars, adVars>>

DispatchReturn == \E k \in Slots : dispatchReturn(k) /\ UNCHANGED <<lbVars, adVars>>

SendWebhook ==
  \E k \in Slots, id \in WebhookIds : sendWebhook(k, id, "ok") /\ UNCHANGED <<lbVars, adVars>>

HttpResponse ==
  \E k \in Slots, id \in WebhookIds, status \in ResponseStatuses :
    httpResponse(k, id, status) /\ UNCHANGED <<lbVars, adVars>>

RetryWake == \E k \in Slots, id \in WebhookIds : retryWake(k, id) /\ UNCHANGED <<lbVars, adVars>>

StatsUpdated ==
  \E k \in Slots, id \in WebhookIds : statsUpdated(k, id, "ok") /\ UNCHANGED <<lbVars, adVars>>

\* The requests that the dispatches and the administration may still start.
WhBudget == MaxDispatches - started

TestWebhook ==
  \E id \in WebhookIds, jsonParsed \in BOOLEAN :
    /\ testWebhook(WhAdmin, id, jsonParsed, WhBudget)
    /\ UNCHANGED <<lbVars, sample>>

TestResponse ==
  \E status \in {200, 500} : testResponse(WhAdmin, status) /\ UNCHANGED <<lbVars, sample>>

TestStats == testStats(WhAdmin) /\ UNCHANGED <<lbVars, sample>>

ToggleEnabled ==
  \E id \in WebhookIds : toggleEnabled(WhAdmin, id, WhBudget) /\ UNCHANGED <<lbVars, sample>>

ToggleWrite == toggleWrite(WhAdmin) /\ UNCHANGED <<lbVars, sample>>

NextWh ==
  \/ Dispatch
  \/ DispatchReturn
  \/ SendWebhook
  \/ HttpResponse
  \/ RetryWake
  \/ StatsUpdated
  \/ TestWebhook
  \/ TestResponse
  \/ TestStats
  \/ ToggleEnabled
  \/ ToggleWrite

\* Dispatches, test calls and toggles with a reliable repository.
SpecWh == InitWh /\ [][NextWh]_vars

\* ------------------------------------------- failing repository, network
RepositoryOutcomes == {"ok", "throw"}

\* Two enabled subscribers.
InitWhFault ==
  /\ LbIdle
  /\ AdIdle
  /\ webhooks = ("w1" :> ExcludingSubscriber) @@ ("w2" :> FilteredSubscriber)
  /\ circuitBreakers = <<>>
  /\ now = TickMs
  /\ dispatches = [k \in Slots |-> IdleDispatch]
  /\ deliveries = <<>>
  /\ lastRequest = None
  /\ started = 0

FaultyDispatch ==
  \E k \in Slots, o \in RepositoryOutcomes :
    /\ FreeSlot(k)
    /\ sendToAllWebhooks(k, "MESSAGES_UPSERT", "a", o, MaxFaultDispatches)
    /\ UNCHANGED <<lbVars, adVars>>

FaultySendWebhook ==
  \E k \in Slots, id \in WebhookIds, o \in RepositoryOutcomes :
    sendWebhook(k, id, o) /\ UNCHANGED <<lbVars, adVars>>

FaultyHttpResponse ==
  \E k \in Slots, id \in WebhookIds, status \in {200, 0} :
    httpResponse(k, id, status) /\ UNCHANGED <<lbVars, adVars>>

FaultyStatsUpdated ==
  \E k \in Slots, id \in WebhookIds, o \in RepositoryOutcomes :
    statsUpdated(k, id, o) /\ UNCHANGED <<lbVars, adVars>>

NextWhFault ==
  \/ FaultyDispatch
  \/ DispatchReturn
  \/ FaultySendWebhook
  \/ FaultyHttpResponse
  \/ RetryWake
  \/ FaultyStatsUpdated

\* Dispatches while the repository and the subscribers may fail.
SpecWhFault == InitWhFault /\ [][NextWhFault]_vars

\* --------------------------------------------------------- webhook claims
\* The dispatch in slot k returns in this step.
Returns(k) ==
  /\ dispatches'[k].pc = "returned"
  /\ dispatches[k].pc = "waiting" \/ started' # started

\* C11: a dispatch never raises to its caller, whatever happens to the
\* subscribers and the repository; it starts a delivery for every enabled
\* subscriber and returns only after every one of them has settled.
C11_DispatchNeverRaises ==
  [][\A k \in Slots :
       /\ Returns(k) =>
            /\ dispatches'[k].result = "resolved"
            /\ \A d \in DOMAIN deliveries : d[1] = k => deliveries[d].pc = "settled"
       /\ (dispatches'[k].pc = "waiting" /\ dispatches[k].pc # "waiting") =>
            \A id \in DOMAIN webhooks :
              webhooks[id].enabled =>
                (<<k, id>> \in DOMAIN deliveries' /\ deliveries'[<<k, id>>].pc = "loading")]_vars

\* C11 witness: a dispatch has returned normally after the record of one
\* subscriber could not be loaded and the delivery to the other one failed,
\* and another dispatch returned normally although the listing failed.
C11_Witness ==
  /\ dispatches[1].pc = "returned"
  /\ dispatches[1].result = "resolved"
  /\ dispatches[1].outcomes = {"error", "failed"}
  /\ dispatches[2].pc = "returned"
  /\ dispatches[2].result = "resolved"
  /\ dispatches[2].outcomes = {}
  /\ started = 2

\* The deliveries that passed the gate and the filters.
Sending == {d \in DOMAIN deliveries : deliveries[d].retryConfig # None}

\* The attempts the subscriber of a delivery allows: its maxAttempts, or the
\* default of the schema when it sets none.
AllowedAttempts(d) ==
  LET retryConfig == deliveries[d].retryConfig[1]
  IN  IF retryConfig.maxAttempts = 0 THEN 3 ELSE retryConfig.maxAttempts

\* C12: for every delivery and every sequence of responses, the number of
\* HTTP requests issued is at most the subscriber's maxAttempts.
C12_RetryBound == \A d \in Sending : deliveries[d].requests <= AllowedAttempts(d)

\* C12 witness: a delivery to a subscriber with maxAttempts = 2 failed after two
\* requests that were both answered with 500.
C12_Witness ==
  \E d \in Sending :
    /\ deliveries[d].retryConfig[1].maxAttempts = 2
    /\ deliveries[d].pc = "settled"
    /\ deliveries[d].outcome = "failed"
    /\ deliveries[d].lastStatus = 500
    /\ deliveries[d].requests = 2

\* The last response of the delivery has a status the subscriber lists as
\* not retryable (the default list when it sets none).
GotNonRetryable(d) ==
  LET retryConfig == deliveries[d].retryConfig[1]
      codes == IF retryConfig.nonRetryableStatusCodes = None
               THEN {400, 401, 403, 404, 422}
               ELSE retryConfig.nonRetryableStatusCodes[1]
  IN  deliveries[d].lastStatus \in codes

\* C13: once an attempt of a delivery receives a status of the subscriber's
\* nonRetryableStatusCodes, no further request is issued (exactly one if it was
\* the first response), one failed execution is recorded with the error text
\* and the failure is reported to the circuit breaker.
C13_NoRetry ==
  [][\A d \in Sending :
       GotNonRetryable(d) =>
         /\ deliveries[d].pc \in {"stats", "settled"}
         /\ deliveries[d].requests = deliveries[d].attempts
         /\ d \in DOMAIN deliveries' => deliveries'[d].requests = deliveries[d].requests
         /\ (deliveries[d].pc = "stats" /\ deliveries'[d].pc = "settled") =>
              /\ deliveries'[d].outcome = "failed"
              /\ webhooks'[d[2]].failedExecutions = webhooks[d[2]].failedExecutions + 1
              /\ webhooks'[d[2]].totalExecutions = webhooks[d[2]].totalExecutions + 1
              /\ webhooks'[d[2]].lastExecutionStatus = "failed"
              /\ webhooks'[d[2]].lastExecutionError
                   = <<"Request failed with status code", "404">>
              /\ circuitBreakers'[d[2]].failures = circuitBreakers[d[2]].failures + 1]_vars

\* C13 witness: a delivery whose first request was answered with 500 and whose
\* second with 404 has ended as failed after two of up to three requests.
C13_Witness ==
  \E d \in Sending :
    /\ GotNonRetryable(d)
    /\ AllowedAttempts(d) = 3
    /\ deliveries[d].pc = "settled"
    /\ deliveries[d].outcome = "failed"
    /\ deliveries[d].requests = 2
    /\ deliveries[d].updates = 1
    /\ webhooks[d[2]].lastExecutionError = <<"Request failed with status code", "404">>

\* C17: in every state of a subscriber record successfulExecutions +
\* failedExecutions <= totalExecutions, and no step of any interleaving of
\* deliveries and test calls decreases one of the three counters.
C17_StatsMonotonic ==
  [][\A id \in DOMAIN webhooks :
       /\ webhooks[id].successfulExecutions + webhooks[id].failedExecutions
            <= webhooks[id].totalExecutions
       /\ webhooks'[id].successfulExecutions + webhooks'[id].failedExecutions
            <= webhooks'[id].totalExecutions
       /\ webhooks'[id].totalExecutions >= webhooks[id].totalExecutions
       /\ webhooks'[id].successfulExecutions >= webhooks[id].successfulExecutions
       /\ webhooks'[id].failedExecutions >= webhooks[id].failedExecutions]_vars

\* C17 witness: a failed delivery, a successful test call and a successful
\* delivery that was in flight during the test call were all counted.
C17_Witness ==
  /\ webhooks["w1"].totalExecutions = 3
  /\ webhooks["w1"].successfulExecutions = 2
  /\ webhooks["w1"].failedExecutions = 1
  /\ webhooks["w1"].lastExecutionStatus = "success"
  /\ \E d \in Sending : deliveries[d].pc = "settled" /\ deliveries[d].outcome = "success"

\* The deliveries to subscriber id that settle in this step after at least
\* one request.
SettlingNow(id) ==
  {d \in DOMAIN deliveries :
     /\ d[2] = id
     /\ deliveries[d].pc # "settled"
     /\ d \in DOMAIN deliveries'
     /\ deliveries'[d].pc = "settled"
     /\ deliveries'[d].requests >= 1}

\* A step of a test call or of a toggle.
AdminStep == pending' # pending

\* C18: a delivery that issued at least one request records exactly one
\* statistics update when it settles, whatever its number of attempts:
\* totalExecutions + 1 and exactly one of successfulExecutions and
\* failedExecutions + 1; no step of a delivery changes the counters
\* otherwise, so that N settling deliveries add exactly N.
C18_OneUpdatePerDelivery ==
  [][\A id \in DOMAIN webhooks :
       ~AdminStep =>
         LET n == Cardinality(SettlingNow(id))
         IN  /\ webhooks'[id].totalExecutions = webhooks[id].totalExecutions + n
             /\ webhooks'[id].successfulExecutions + webhooks'[id].failedExecutions
                  = webhooks[id].successfulExecutions + webhooks[id].failedExecutions + n
             /\ \A d \in SettlingNow(id) :
                  /\ deliveries'[d].updates = 1
                  /\ deliveries'[d].outcome = "success" <=>
                       webhooks'[id].successfulExecutions
                         = webhooks[id].successfulExecutions + 1]_vars

\* C18 witness: two deliveries to one subscriber were in flight together; one
\* succeeded at its third request, after two failed attempts, and the record
\* counts two executions, one of them successful.
C18_Witness ==
  /\ <<1, "w1">> \in Sending /\ <<2, "w1">> \in Sending
  /\ deliveries[<<1, "w1">>].pc = "settled" /\ deliveries[<<2, "w1">>].pc = "settled"
  /\ deliveries[<<1, "w1">>].requests = 3
  /\ deliveries[<<1, "w1">>].attempts = 2
  /\ deliveries[<<1, "w1">>].outcome = "success"
  /\ deliveries[<<2, "w1">>].outcome = "failed"
  /\ webhooks["w1"].totalExecutions = 2
  /\ webhooks["w1"].successfulExecutions = 1
  /\ webhooks["w1"].failedExecutions = 1

\* C19 as stated: a subscriber with a non-empty instances allow-list is sent
\* an event only if the event's instanceName is in the list (an event without
\* an instanceName is skipped), and a subscriber is never sent an event of an
\* instance in its excludeInstances.
C19_InstanceFilter ==
  \A d \in Sending :
    LET filterConfig == webhooks[d[2]].filterConfig
    IN  /\ filterConfig.instances # {} =>
             deliveries[d].instanceName \in filterConfig.instances
        /\ deliveries[d].instanceName \notin filterConfig.excludeInstances

\* C20 as stated: a delivery request of a subscriber with signature
\* validation enabled carries the configured signature header with the value
\* '<algorithm>=<hex HMAC of the body under signatureSecret>'; without
\* signature validation the header is absent.
C20_SignatureHeader ==
  (lastRequest # None /\ lastRequest[1].slot \in Slots) =>
    LET request == lastRequest[1]
        securityConfig == webhooks[request.id].securityConfig
    IN  IF securityConfig.enableSignatureValidation
        THEN <<securityConfig.signatureHeader,
               generateWebhookSignature(request.body, securityConfig.signatureSecret,
                                        securityConfig.signatureAlgorithm)>>
               \in request.headers
        ELSE \A h \in request.headers : h[1] # "X-Webhook-Signature"

\* ------------------------------------------------------- circuit breaker
\* A subscriber of every event that tries twice and retries any status.
RetryingSubscriber ==
  Subscriber(TRUE, {}, {}, NoAuthentication,
             [maxAttempts |-> 2, nonRetryableStatusCodes |-> Some({})],
             NoSecurity, NoFilter)

\* One subscriber that tries once or twice.
InitBreaker ==
  /\ LbIdle
  /\ AdIdle
  /\ webhooks \in {("w1" :> ExcludingSubscriber), ("w1" :> RetryingSubscriber)}
  /\ circuitBreakers = <<>>
  /\ now = TickMs
  /\ dispatches = [k \in Slots |-> IdleDispatch]
  /\ deliveries = <<>>
  /\ lastRequest = None
  /\ started = 0

BreakerDispatch ==
  \E k \in Slots :
    /\ FreeSlot(k)
    /\ sendToAllWebhooks(k, "MESSAGES_UPSERT", "a", "ok", MaxBreakerDispatches)
    /\ UNCHANGED <<lbVars, adVars>>

BreakerHttpResponse ==
  \E k \in Slots, id \in WebhookIds, status \in {200, 500} :
    httpResponse(k, id, status) /\ UNCHANGED <<lbVars, adVars>>

Tick == tick /\ UNCHANGED <<lbVars, adVars>>

NextBreaker ==
  \/ BreakerDispatch
  \/ DispatchReturn
  \/ SendWebhook
  \/ BreakerHttpResponse
  \/ RetryWake
  \/ StatsUpdated
  \/ Tick

\* Dispatches to one subscriber that fails or answers, while time passes.
SpecBreaker == InitBreaker /\ [][NextBreaker]_vars

\* The failures the breaker of a subscriber has counted.
FailuresIn(cbs, id) == IF id \in DOMAIN cbs THEN cbs[id].failures ELSE 0

\* The breaker of the subscriber has reached the threshold and its cooldown
\* has not passed.
Blocked(id) ==
  /\ id \in DOMAIN circuitBreakers
  /\ circuitBreakers[id].failures >= 5
  /\ now - circuitBreakers[id].lastFailureTime <= 60000

\* The delivery reaches the gate in this step.
Gated(d) ==
  /\ deliveries[d].pc = "loading"
  /\ d \in DOMAIN deliveries'
  /\ deliveries'[d].pc # "loading"
  /\ deliveries'[d].outcome \notin {"disabled", "error"}

\* C14 as stated: while the breaker of a subscriber has failures >= 5 and no
\* more than 60 s have passed since lastFailureTime, no delivery issues a
\* request to the subscriber, be it a new one or one inside its retry loop.
C14_BreakerSafety ==
  [][\A d \in DOMAIN deliveries \cap DOMAIN deliveries' :
       Blocked(d[2]) => deliveries'[d].requests <= deliveries[d].requests]_vars

\* The probe of the subscriber, started in another slot than k, has not
\* settled.
ProbeInFlight(id, k) ==
  \E j \in Slots \ {k} :
    /\ <<j, id>> \in DOMAIN deliveries
    /\ deliveries[<<j, id>>].gateState = "OPEN"
    /\ deliveries[<<j, id>>].pc \in {"posting", "sleeping", "stats"}

\* C15 as stated: the gate lets a delivery through an open breaker whose
\* cooldown has passed and moves the breaker to HALF_OPEN, and while the
\* breaker is HALF_OPEN and that probe has not settled the gate denies every
\* other delivery to the subscriber.
C15_SingleProbe ==
  [][\A d \in DOMAIN deliveries :
       Gated(d) =>
         /\ (GateState(circuitBreakers, d[2]) = "OPEN"
               /\ CooldownElapsed(circuitBreakers[d[2]], now))
              => /\ circuitBreakers'[d[2]].state = "HALF_OPEN"
                 /\ deliveries'[d].outcome # "denied"
         /\ (GateState(circuitBreakers, d[2]) = "HALF_OPEN" /\ ProbeInFlight(d[2], d[1]))
              => deliveries'[d].outcome = "denied"]_vars

\* The delivery is recorded as failed in this step.
RecordedFailed(d) ==
  /\ deliveries[d].pc = "stats"
  /\ d \in DOMAIN deliveries'
  /\ deliveries'[d].pc = "settled"
  /\ deliveries'[d].outcome = "failed"

\* C16: a closed breaker has counted fewer than 5 failures and opens in the
\* step that records the fifth one, and in no other; a failed delivery adds
\* one failure whatever the number of its attempts; a delivery that reaches
\* the gate of an open breaker within 60 s of the last failure is denied and
\* issues no request.
C16_OpensAtFifthFailure ==
  [][\A id \in DOMAIN webhooks :
       /\ GateState(circuitBreakers, id) = "CLOSED" =>
            /\ FailuresIn(circuitBreakers, id) < 5
            /\ GateState(circuitBreakers', id) = "OPEN" <=>
                 /\ FailuresIn(circuitBreakers, id) = 4
                 /\ FailuresIn(circuitBreakers', id) = 5
                 /\ \E k \in Slots : <<k, id>> \in DOMAIN deliveries /\ RecordedFailed(<<k, id>>)
       /\ \A k \in Slots :
            <<k, id>> \in DOMAIN deliveries =>
              /\ RecordedFailed(<<k, id>>) =>
                   FailuresIn(circuitBreakers', id) = FailuresIn(circuitBreakers, id) + 1
              /\ (/\ Gated(<<k, id>>)
                  /\ GateState(circuitBreakers, id) = "OPEN"
                  /\ now - circuitBreakers[id].lastFailureTime <= 60000)
                   => /\ deliveries'[<<k, id>>].outcome = "denied"
                      /\ deliveries'[<<k, id>>].requests = 0
                      /\ lastRequest' = lastRequest]_vars

\* Five failed deliveries of two attempts each have opened the breaker, and a
\* later delivery was denied without a request.
C16_Witness ==
  /\ "w1" \in DOMAIN circuitBreakers
  /\ circuitBreakers["w1"].state = "OPEN"
  /\ circuitBreakers["w1"].failures = 5
  /\ webhooks["w1"].retryConfig.maxAttempts = 2
  /\ webhooks["w1"].failedExecutions = 5
  /\ webhooks["w1"].totalExecutions = 5
  /\ \E d \in DOMAIN deliveries :
       /\ deliveries[d].outcome = "denied"
       /\ deliveries[d].requests = 0

\* ------------------------------------------------------ alias generation
\* Strings are lists of characters. "U+0130" is the capital dotted I, whose
\* lower case is an i followed by the combining dot "U+0307".
Chars == {"A", "a", "1", " ", "-", "!", "U+0130"}

\* [a-z0-9-], as far as the characters above and their lower cases go.
AliasChars == {"a", "b", "i", "1", "-"}

\* \s
Whitespace == {" "}

\* String.prototype.toLowerCase of one character.
LowerOf(c) ==
  IF c = "A" THEN <<"a">>
  ELSE IF c = "U+0130" THEN <<"i", "U+0307">>
  ELSE <<c>>

RECURSIVE toLowerCase(_)
toLowerCase(s) == IF s = <<>> THEN <<>> ELSE LowerOf(Head(s)) \o toLowerCase(Tail(s))

\* The string without its longest prefix of characters of the class.
RECURSIVE DropWhile(_, _)
DropWhile(s, class) ==
  IF s # <<>> /\ Head(s) \in class THEN DropWhile(Tail(s), class) ELSE s

\* replace(/<class>+/g, '-')
RECURSIVE ReplaceRuns(_, _)
ReplaceRuns(s, class) ==
  IF s = <<>> THEN <<>>
  ELSE IF Head(s) \in class THEN <<"-">> \o ReplaceRuns(DropWhile(s, class), class)
  ELSE <<Head(s)>> \o ReplaceRuns(Tail(s), class)

\* replace(/[^a-z0-9-]/g, '')
KeepAliasChars(s) == SelectSeq(s, LAMBDA c : c \in AliasChars)

\* replace(/^-|-$/g, ''): one hyphen at the start and one at the end.
StripEnds(s) ==
  LET t == IF s # <<>> /\ Head(s) = "-" THEN Tail(s) ELSE s
  IN  IF t # <<>> /\ t[Len(t)] = "-" THEN SubSeq(t, 1, Len(t) - 1) ELSE t

\* String.prototype.trim
RECURSIVE TrimEnd(_)
TrimEnd(s) ==
  IF s # <<>> /\ s[Len(s)] \in Whitespace THEN TrimEnd(SubSeq(s, 1, Len(s) - 1)) ELSE s
Trim(s) == TrimEnd(DropWhile(s, Whitespace))

\* Runs of hyphens are kept.
transformToAlias_NoCollapse(input) ==
  StripEnds(KeepAliasChars(ReplaceRuns(toLowerCase(input), Whitespace)))

\* InstanceGroupController.transformToAlias
transformToAlias(input) ==
  StripEnds(ReplaceRuns(KeepAliasChars(ReplaceRuns(toLowerCase(input), Whitespace)), {"-"}))

\* The strings of at most n characters.
RECURSIVE StringsUpTo(_)
StringsUpTo(n) ==
  IF n = 0 THEN {<<>>}
  ELSE LET shorter == StringsUpTo(n - 1)
       IN  shorter \cup {<<c>> \o s : c \in Chars, s \in {t \in shorter : Len(t) = n - 1}}

InitAlias ==
  /\ LbIdle
  /\ WhIdle
  /\ pending = <<>>
  /\ reply = NoReply
  /\ sample \in {[input |-> x, value |-> x, applied |-> 0] : x \in StringsUpTo(MaxAliasLen)}

\* The alias of the value is generated, at most twice.
applyTransformToAlias ==
  /\ sample.applied < 2
  /\ sample' = [sample EXCEPT !.value = transformToAlias(@), !.applied = @ + 1]
  /\ UNCHANGED <<pending, reply>>

ApplyTransformToAlias == applyTransformToAlias /\ UNCHANGED <<lbVars, whVars>>

NextAlias == ApplyTransformToAlias

\* Alias generation on every short string.
SpecAlias == InitAlias /\ [][NextAlias]_vars

\* C23: the alias of an alias is the alias itself, and an alias is empty or
\* made of the characters a-z, 0-9 and the hyphen only.
C23_AliasIdempotent ==
  sample.applied >= 1 =>
    /\ transformToAlias(sample.value) = sample.value
    /\ sample.applied = 2 => sample.value = transformToAlias(sample.input)
    /\ \A i \in 1..Len(sample.value) : sample.value[i] \in AliasChars

\* The alias of a string with capitals, spaces, hyphens at both ends and
\* characters that are dropped was generated twice.
C23_Witness ==
  /\ sample.applied = 2
  /\ sample.input = <<"-", " ", "A", "!">>
  /\ sample.value = <<"a">>

\* -------------------------------------------------- group administration
\* Group names, aliases and instance names of the administration requests,
\* as lists of characters.
GroupNames == {<<"A">>, <<"a">>, <<"!">>}
AliasInputs == {<<"a">>, <<"b">>}
\* repository.instance: the instances that exist.
Registered == {<<"a">>, <<"b">>}
InstanceInputs == {<<"a">>, <<"b">>, <<" ", "b">>, <<"z">>}
MembershipInputs ==
  {<< <<"a">> >>, << <<"b">>, <<"a">> >>, << <<"a">>, <<"z">> >>, << <<" ">> >>,
   << <<"z">> >>}
\* The fields an update request sets.
UpdateNames == {<<"a">>}
UpdateAliases == {<<"a">>, <<" ">>}
UpdateMemberships == {<< <<"b">> >>, << <<" ">> >>}
\* The fields of the update requests that are made one after another: the
\* empty string and a blank string are among the names and aliases.
SerialUpdateNames == {<<"a">>, <<>>}
SerialUpdateAliases == {<<"a">>, <<>>, <<" ">>}
AdminProcs == {1, 2}

\* [...new Set(list)]: the first occurrence of every element, in order.
RECURSIVE Dedup(_)
Dedup(s) ==
  IF s = <<>> THEN <<>>
  ELSE LET init == Dedup(SubSeq(s, 1, Len(s) - 1))
       IN  IF s[Len(s)] \in Range(init) THEN init ELSE Append(init, s[Len(s)])

\* instances.filter((name) => name && name.trim().length > 0), without its
\* duplicates.
CleanInstances(instances) ==
  Dedup(SelectSeq(instances, LAMBDA name : Trim(name) # <<>>))

\* validateAliasUniqueness: a group other than excludeId has the alias.
AliasInUse(alias, excludeId) ==
  \E g \in findByAlias(alias) : Some(g) # excludeId

\* !x of a string field of the body: the field is left out or is ''.
Falsy(x) == x = None \/ x[1] = <<>>

\* InstanceGroupController.create up to the await after validateAliasUniqueness:
\* the checks of the body, the alias and its uniqueness, and the call of
\* InstanceGroupService.create.
groupCreate(p, name, alias, enabled, instances, limit) ==
  /\ Admit(p, limit)
  /\ Cardinality(DOMAIN groups)
       + Cardinality({q \in DOMAIN pending : pending[q].op = "create"}) < Cardinality(GroupIds)
  /\ LET generated == IF alias = None \/ Trim(alias[1]) = <<>>
                      THEN transformToAlias(name)
                      ELSE transformToAlias(alias[1])
         cleaned == CleanInstances(instances)
     IN  IF \/ Trim(name) = <<>>
            \/ instances = <<>>
            \/ generated = <<>>
            \/ AliasInUse(generated, None)
            \/ cleaned = <<>>
         THEN Respond(p, "create", "BadRequest")
         ELSE Proceed(p, PendingCall("create", "validate", "", Some(name), Some(generated),
                                     enabled, Some(cleaned), Null))
  /\ UNCHANGED groups

\* await validateAliasUniqueness(data.alias, id) of InstanceGroupController.update
\* and the code that follows it up to the findUnique of the service.
controllerAlias(p, c) ==
  /\ UNCHANGED groups
  /\ LET cleaned == IF c.instances = None THEN None
                    ELSE Some(CleanInstances(c.instances[1]))
     IN  IF AliasInUse(c.alias[1], Some(c.id))
         THEN Respond(p, c.op, "BadRequest")
         ELSE IF cleaned # None /\ cleaned[1] = <<>>
         THEN Respond(p, c.op, "BadRequest")
         ELSE Proceed(p, [c EXCEPT !.pc = "find", !.instances = cleaned])

\* InstanceGroupController.update up to its second await: the test of the
\* body, then findById for a blank alias, validateAliasUniqueness for another
\* alias, and the findUnique of the service for a body without alias.
groupUpdate(p, id, name, alias, enabled, instances, limit) ==
  LET c == PendingCall("update", "", id, name, alias, enabled, instances, Null)
      cleaned == IF instances = None THEN None ELSE Some(CleanInstances(instances[1]))
  IN  /\ Admit(p, limit)
      /\ IF Falsy(name) /\ Falsy(alias) /\ enabled = None /\ instances = None
         THEN Respond(p, "update", "BadRequest") /\ UNCHANGED groups
         ELSE IF alias = None
         THEN IF cleaned # None /\ cleaned[1] = <<>>
              THEN Respond(p, "update", "BadRequest") /\ UNCHANGED groups
              ELSE serviceFind(p, [c EXCEPT !.instances = cleaned])
         ELSE IF Trim(alias[1]) = <<>>
         THEN /\ UNCHANGED groups
              /\ IF id \notin DOMAIN groups
                 THEN Respond(p, "update", "NotFound")
                 ELSE LET nameToUse == IF Falsy(name) THEN groups[id].name ELSE name[1]
                          generated == transformToAlias(nameToUse)
                      IN  IF generated = <<>>
                          THEN Respond(p, "update", "BadRequest")
                          ELSE Proceed(p, [c EXCEPT !.pc = "alias",
                                                    !.alias = Some(generated)])
         ELSE IF transformToAlias(alias[1]) = <<>>
         THEN Respond(p, "update", "BadRequest") /\ UNCHANGED groups
         ELSE controllerAlias(p, [c EXCEPT !.alias = Some(transformToAlias(alias[1]))])

\* InstanceGroupController.addInstance: the service is called with the
\* trimmed name.
groupAddInstance(p, id, instanceName, limit) ==
  IF Trim(instanceName) = <<>>
  THEN Admit(p, limit) /\ Respond(p, "addInstance", "BadRequest") /\ UNCHANGED groups
  ELSE addInstance(p, id, Trim(instanceName), limit)

\* InstanceGroupController.removeInstance: the service is called with the
\* trimmed name.
groupRemoveInstance(p, id, instanceName, limit) ==
  IF Trim(instanceName) = <<>>
  THEN Admit(p, limit) /\ Respond(p, "removeInstance", "BadRequest") /\ UNCHANGED groups
  ELSE removeInstance(p, id, Trim(instanceName), limit)

\* No group is stored.
InitAdmin ==
  /\ WhIdle
  /\ AdIdle
  /\ groups = <<>>
  /\ open = [i \in Instances |-> TRUE]
  /\ cacheOn = FALSE
  /\ cache = <<>>
  /\ rotationMemory = <<>>
  /\ globalRotationMemory = EmptyGlobalData
  /\ log = <<>>
  /\ result = Response("none", "", "")
  /\ envSteps = 0
  /\ calls = <<>>

Optional(S) == {None} \cup {Some(x) : x \in S}

GroupCreate ==
  \E p \in AdminProcs, name \in GroupNames, alias \in Optional(AliasInputs),
     enabled \in Optional({FALSE}), instances \in MembershipInputs :
    groupCreate(p, name, alias, enabled, instances, MaxAdminCalls) /\ AdminFrame

GroupUpdate ==
  \E p \in AdminProcs, id \in GroupIds, name \in Optional(UpdateNames),
     alias \in Optional(UpdateAliases), instances \in Optional(UpdateMemberships) :
    groupUpdate(p, id, name, alias, None, instances, MaxAdminCalls) /\ AdminFrame

GroupAddInstance ==
  \E p \in AdminProcs, id \in GroupIds, instanceName \in InstanceInputs :
    groupAddInstance(p, id, instanceName, MaxAdminCalls) /\ AdminFrame

GroupRemoveInstance ==
  \E p \in AdminProcs, id \in GroupIds, instanceName \in InstanceInputs :
    groupRemoveInstance(p, id, instanceName, MaxAdminCalls) /\ AdminFrame

ControllerAlias ==
  \E p \in DOMAIN pending : AtAwait(p, "alias") /\ controllerAlias(p, pending[p]) /\ AdminFrame

ServiceFind ==
  \E p \in DOMAIN pending : AtAwait(p, "find") /\ serviceFind(p, pending[p]) /\ AdminFrame

ServiceNameCheck ==
  \E p \in DOMAIN pending :
    AtAwait(p, "nameCheck") /\ serviceNameCheck(p, pending[p]) /\ AdminFrame

ServiceValidate ==
  \E p \in DOMAIN pending :
    AtAwait(p, "validate") /\ serviceValidate(p, pending[p], Registered) /\ AdminFrame

NextAdmin ==
  \/ GroupCreate
  \/ GroupUpdate
  \/ GroupAddInstance
  \/ GroupRemoveInstance
  \/ ControllerAlias
  \/ ServiceFind
  \/ ServiceNameCheck
  \/ ServiceValidate
  \/ ServiceWrite

\* Group administration requests that run concurrently.
SpecAdmin == InitAdmin /\ [][NextAdmin]_vars

\* Requests that are made one after another: a request starts when no other
\* is in flight.
SerialGroupCreate ==
  /\ pending = <<>>
  /\ \E name \in GroupNames, alias \in Optional(AliasInputs),
        enabled \in Optional({FALSE}), instances \in MembershipInputs :
       groupCreate(1, name, alias, enabled, instances, MaxSerialCalls)
  /\ AdminFrame

SerialGroupUpdate ==
  /\ pending = <<>>
  /\ \E id \in GroupIds, name \in Optional(SerialUpdateNames),
        alias \in Optional(SerialUpdateAliases), enabled \in Optional({FALSE}),
        instances \in Optional(UpdateMemberships) :
       groupUpdate(1, id, name, alias, enabled, instances, MaxSerialCalls)
  /\ AdminFrame

SerialGroupAddInstance ==
  /\ pending = <<>>
  /\ \E id \in GroupIds, instanceName \in InstanceInputs :
       groupAddInstance(1, id, instanceName, MaxSerialCalls)
  /\ AdminFrame

SerialGroupRemoveInstance ==
  /\ pending = <<>>
  /\ \E id \in GroupIds, instanceName \in InstanceInputs :
       groupRemoveInstance(1, id, instanceName, MaxSerialCalls)
  /\ AdminFrame

SerialGroupDelete ==
  /\ pending = <<>>
  /\ \E id \in GroupIds : delete(1, id, MaxSerialCalls)
  /\ AdminFrame

NextAdminSerial ==
  \/ SerialGroupCreate
  \/ SerialGroupUpdate
  \/ SerialGroupAddInstance
  \/ SerialGroupRemoveInstance
  \/ SerialGroupDelete
  \/ ControllerAlias
  \/ ServiceFind
  \/ ServiceNameCheck
  \/ ServiceValidate
  \/ ServiceWrite
  \/ ServiceDelete

\* Group administration requests that run one after another.
SpecAdminSerial == InitAdmin /\ [][NextAdminSerial]_vars

\* The list has no element twice.
DuplicateFree(s) == \A i, j \in 1..Len(s) : s[i] = s[j] => i = j

\* C21: every stored group has a non-empty instances list without
\* duplicates, whatever the interleaving of create, update, addInstance and
\* removeInstance; a removeInstance whose name is not a member of the group,
\* or is its only member, is rejected and changes nothing.
C21_MembershipValid ==
  [][/\ \A g \in DOMAIN groups' :
          groups'[g].instances # <<>> /\ DuplicateFree(groups'[g].instances)
     /\ \A p \in AdminProcs, id \in DOMAIN groups, instanceName \in InstanceInputs :
          (/\ groupRemoveInstance(p, id, instanceName, MaxAdminCalls)
           /\ \/ Trim(instanceName) \notin Range(groups[id].instances)
              \/ Range(groups[id].instances) = {Trim(instanceName)})
            => /\ reply'.op = "removeInstance"
               /\ reply'.status = "BadRequest"
               /\ p \notin DOMAIN pending'
               /\ groups' = groups]_vars

\* Two removals of different members of a group of two have run together:
\* one has written its list, the other is about to write the list it
\* computed from the members it had read.
C21_Witness ==
  \E p \in DOMAIN pending, g \in DOMAIN groups :
    /\ pending[p].op = "removeInstance"
    /\ pending[p].pc = "write"
    /\ pending[p].id = g
    /\ pending[p].instances = Some(<< <<"a">> >>)
    /\ groups[g].instances = << <<"b">> >>

\* C22: with requests made one after another no two stored groups share a
\* name or an alias, and a request that is not answered ok leaves the store
\* unchanged. A create or update whose name or alias is taken by another
\* group is rejected: by the checks of the handlers (it never reaches the
\* unique indexes) for every alias and every non-empty name, and by the
\* unique index on name for the empty name, which update does not check.
C22_NamesAndAliasesUnique ==
  [][/\ UniqueIndexesHold(groups')
     /\ reply'.n # reply.n =>
          /\ reply'.status \in {"ok", "BadRequest", "NotFound", "Error"}
          /\ reply'.status # "ok" => groups' = groups
     /\ \A p \in DOMAIN pending :
          (/\ pending[p].pc = "write"
           /\ pending[p].op \in {"create", "update"}
           /\ p \notin DOMAIN pending')
            => LET others == DOMAIN groups \ {pending[p].id}
                   nameTaken == /\ pending[p].name # None
                                /\ \E g \in others : groups[g].name = pending[p].name[1]
                   aliasTaken == /\ pending[p].alias # None
                                 /\ \E g \in others : groups[g].alias = pending[p].alias[1]
               IN  /\ ~aliasTaken
                   /\ nameTaken => /\ pending[p].name[1] = <<>>
                                   /\ pending[p].op = "update"
                                   /\ reply'.status = "Error"
                   /\ ~nameTaken => reply'.status = "ok"]_vars

\* Two groups are stored, a create with the name of one of them and an update
\* to the alias of the other were rejected.
C22_Witness ==
  /\ DOMAIN groups = {"g1", "g2"}
  /\ groups["g1"].name = <<"A">>
  /\ groups["g1"].alias = <<"a">>
  /\ groups["g2"].name = <<"a">>
  /\ groups["g2"].alias = <<"b">>
  /\ reply = [op |-> "update", status |-> "BadRequest", n |-> 3]

\* --------------------------------------------------- subscriber addresses
\* A URL as its scheme and the labels of its host; the strings that new URL
\* does not parse are left out.
Schemes == {"https:", "ftp:"}
Hosts ==
  {<<"localhost">>, <<"127", "0", "0", "1">>, <<"10", "0", "0", "8">>,
   <<"172", "20", "0", "1">>, <<"172", "32", "0", "1">>, <<"192", "168", "1", "5">>,
   <<"example", "com">>}
Urls ==
  {[protocol |-> "http:", hostname |-> h] : h \in Hosts}
    \cup {[protocol |-> s, hostname |-> <<"example", "com">>] : s \in Schemes}
WebhookNames == {"n1", "n2"}

\* /^https?:\/\//
HasHttpPrefix(url) == url.protocol \in {"http:", "https:"}

\* /^172\.(1[6-9]|2[0-9]|3[0-1])\./
SecondOctets172 ==
  {"16", "17", "18", "19", "20", "21", "22", "23", "24", "25", "26", "27", "28", "29",
   "30", "31"}

\* The hosts isValidWebhookUrl blocks in production: localhost, 127.0.0.1
\* and the prefixes 192.168., 10. and 172.16. to 172.31.
IsLoopbackOrPrivate(hostname) ==
  \/ hostname = <<"localhost">>
  \/ hostname = <<"127", "0", "0", "1">>
  \/ Len(hostname) >= 3 /\ hostname[1] = "192" /\ hostname[2] = "168"
  \/ Len(hostname) >= 2 /\ hostname[1] = "10"
  \/ Len(hostname) >= 3 /\ hostname[1] = "172" /\ hostname[2] \in SecondOctets172

\* ExternalWebhookService.isValidWebhookUrl
isValidWebhookUrl(url, isDevelopment) ==
  /\ HasHttpPrefix(url)
  /\ isDevelopment \/ ~IsLoopbackOrPrivate(url.hostname)

\* The id of a new subscriber record: one that no row and no request in
\* flight has.
WebhookIdOrder == <<"w1", "w2", "w3">>
NewWebhookId ==
  LET used == DOMAIN webhooks \cup {pending[p].id : p \in DOMAIN pending}
  IN  WebhookIdOrder[CHOOSE i \in 1..Len(WebhookIdOrder) :
                       /\ WebhookIdOrder[i] \notin used
                       /\ \A j \in 1..(i - 1) : WebhookIdOrder[j] \in used]

\* A row other than excludeId has the name.
WebhookNameInUse(name, excludeId) ==
  \E id \in DOMAIN webhooks : Some(id) # excludeId /\ webhooks[id].name = name

\* ${data.enabled || true}: the value ExternalWebhookController.create binds
\* to the enabled column.
EnabledOrTrue(enabled) == IF enabled = None THEN TRUE ELSE (enabled[1] \/ TRUE)

\* enabled: data.enabled, the value ExternalWebhookService.create stores; the
\* column is true where the field is left out.
EnabledAsGiven(enabled) == IF enabled = None THEN TRUE ELSE enabled[1]

\* The retry configuration of a subscriber created without one.
DefaultRetryConfig ==
  [maxAttempts |-> DefaultMaxAttempts,
   nonRetryableStatusCodes |-> Some(DefaultNonRetryableStatusCodes)]

\* The row a create stores for a request that subscribes to every event and
\* leaves the fields other than name, url, enabled and retryConfig to their
\* defaults.
CreatedSubscriber(name, url, enabled, retryConfig) ==
  [name |-> name, url |-> url]
    @@ Subscriber(enabled, {}, {}, NoAuthentication,
                  IF retryConfig = None THEN DefaultRetryConfig ELSE retryConfig[1],
                  NoSecurity, NoFilter)

\* The row after an update: the fields of the body replace those of the row.
UpdatedSubscriber(webhook, call) ==
  [webhook EXCEPT
     !.name = IF call.name = None THEN @ ELSE call.name[1],
     !.url = IF call.url = None THEN @ ELSE call.url[1],
     !.enabled = IF call.enabled = None THEN @ ELSE call.enabled[1]]

\* The write of an update: it fails for a row that is gone and for a name
\* that another row has (unique index).
UpdateWrite(p, op) ==
  LET call == pending[p]
  IN  IF \/ call.id \notin DOMAIN webhooks
         \/ call.name # None /\ WebhookNameInUse(call.name[1], Some(call.id))
      THEN Respond(p, op, "InternalError") /\ UNCHANGED webhooks
      ELSE /\ webhooks' = [webhooks EXCEPT ![call.id] = UpdatedSubscriber(@, call)]
           /\ Respond(p, op, "ok")

\* ExternalWebhookService.create up to its write: the URL is validated and
\* the name is looked up.
serviceCreate(p, name, url, enabled, retryConfig, isDevelopment, limit) ==
  /\ Admit(p, limit)
  /\ IF ~isValidWebhookUrl(url, isDevelopment) \/ WebhookNameInUse(name, None)
     THEN Respond(p, "service.create", "BadRequest")
     ELSE Proceed(p, WebhookCall("service.create", "write", "", Some(name), Some(url),
                                 enabled, retryConfig))
  /\ UNCHANGED whVars

\* The write of ExternalWebhookService.create; the error of the unique index
\* on the name reaches the caller as it is.
serviceCreateWrite(p) ==
  /\ p \in DOMAIN pending
  /\ pending[p].op = "service.create"
  /\ pending[p].pc = "write"
  /\ LET call == pending[p]
     IN  IF WebhookNameInUse(call.name[1], None)
         THEN Respond(p, "service.create", "Error") /\ UNCHANGED webhooks
         ELSE /\ webhooks' =
                   (NewWebhookId :> CreatedSubscriber(call.name[1], call.url[1],
                                                      EnabledAsGiven(call.enabled),
                                                      call.retryConfig)) @@ webhooks
              /\ Respond(p, "service.create", "ok")
  /\ UNCHANGED <<circuitBreakers, now, dispatches, deliveries, lastRequest, started>>

\* ExternalWebhookService.update up to its next repository call: the row is
\* read and the URL of the body is tested; a name that differs from the one
\* read is looked up next.
serviceUpdate(p, id, name, url, enabled, limit) ==
  /\ Admit(p, limit)
  /\ LET call(pc) == WebhookCall("service.update", pc, id, name, url, enabled, None)
     IN  IF id \notin DOMAIN webhooks
         THEN Respond(p, "service.update", "NotFound")
         ELSE IF url # None /\ ~HasHttpPrefix(url[1])
         THEN Respond(p, "service.update", "BadRequest")
         ELSE IF name # None /\ name[1] # webhooks[id].name
         THEN Proceed(p, call("nameCheck"))
         ELSE Proceed(p, call("write"))
  /\ UNCHANGED whVars

\* The name lookup of ExternalWebhookService.update.
serviceUpdateNameCheck(p) ==
  /\ p \in DOMAIN pending
  /\ pending[p].op = "service.update"
  /\ pending[p].pc = "nameCheck"
  /\ IF WebhookNameInUse(pending[p].name[1], None)
     THEN Respond(p, "service.update", "BadRequest")
     ELSE Proceed(p, [pending[p] EXCEPT !.pc = "write"])
  /\ UNCHANGED whVars

\* The write of ExternalWebhookService.update.
serviceUpdateWrite(p) ==
  /\ p \in DOMAIN pending
  /\ pending[p].op = "service.update"
  /\ pending[p].pc = "write"
  /\ UpdateWrite(p, "service.update")
  /\ UNCHANGED <<circuitBreakers, now, dispatches, deliveries, lastRequest, started>>

\* ExternalWebhookController.create, the handler of POST create, up to its
\* INSERT: the URL is tested and the name is looked up.
controllerCreate(p, name, url, enabled, retryConfig, limit) ==
  /\ Admit(p, limit)
  /\ IF ~HasHttpPrefix(url) \/ WebhookNameInUse(name, None)
     THEN Respond(p, "controller.create", "BadRequest")
     ELSE Proceed(p, WebhookCall("controller.create", "write", "", Some(name), Some(url),
                                 enabled, retryConfig))
  /\ UNCHANGED whVars

\* The INSERT of ExternalWebhookController.create.
controllerCreateWrite(p) ==
  /\ p \in DOMAIN pending
  /\ pending[p].op = "controller.create"
  /\ pending[p].pc = "write"
  /\ LET call == pending[p]
     IN  IF WebhookNameInUse(call.name[1], None)
         THEN Respond(p, "controller.create", "InternalError") /\ UNCHANGED webhooks
         ELSE /\ webhooks' =
                   (NewWebhookId :> CreatedSubscriber(call.name[1], call.url[1],
                                                      EnabledOrTrue(call.enabled),
                                                      call.retryConfig)) @@ webhooks
              /\ Respond(p, "controller.create", "ok")
  /\ UNCHANGED <<circuitBreakers, now, dispatches, deliveries, lastRequest, started>>

\* ExternalWebhookController.update, the handler of PUT update/:id, up to its
\* next query: the row is looked up and the URL of the body is tested; a name
\* in the body is looked up next, and a body without a field is rejected.
controllerUpdate(p, id, name, url, enabled, limit) ==
  /\ Admit(p, limit)
  /\ LET call(pc) == WebhookCall("controller.update", pc, id, name, url, enabled, None)
     IN  IF id \notin DOMAIN webhooks
         THEN Respond(p, "controller.update", "NotFound")
         ELSE IF url # None /\ ~HasHttpPrefix(url[1])
         THEN Respond(p, "controller.update", "BadRequest")
         ELSE IF name # None
         THEN Proceed(p, call("nameCheck"))
         ELSE IF url = None /\ enabled = None
         THEN Respond(p, "controller.update", "BadRequest")
         ELSE Proceed(p, call("write"))
  /\ UNCHANGED whVars

\* The name lookup of ExternalWebhookController.update.
controllerUpdateNameCheck(p) ==
  /\ p \in DOMAIN pending
  /\ pending[p].op = "controller.update"
  /\ pending[p].pc = "nameCheck"
  /\ IF WebhookNameInUse(pending[p].name[1], Some(pending[p].id))
     THEN Respond(p, "controller.update", "BadRequest")
     ELSE Proceed(p, [pending[p] EXCEPT !.pc = "write"])
  /\ UNCHANGED whVars

\* The UPDATE of ExternalWebhookController.update.
controllerUpdateWrite(p) ==
  /\ p \in DOMAIN pending
  /\ pending[p].op = "controller.update"
  /\ pending[p].pc = "write"
  /\ UpdateWrite(p, "controller.update")
  /\ UNCHANGED <<circuitBreakers, now, dispatches, deliveries, lastRequest, started>>

\* No subscriber is stored.
InitUrl ==
  /\ LbIdle
  /\ WhIdle
  /\ AdIdle

\* The URLs of the update requests.
UpdateUrls ==
  {[protocol |-> "http:", hostname |-> <<"192", "168", "1", "5">>],
   [protocol |-> "ftp:", hostname |-> <<"example", "com">>]}

\* The requests of a deployment with NODE_ENV = 'production'.
ServiceCreate ==
  \E p \in AdminProcs, name \in WebhookNames, url \in Urls, enabled \in Optional({FALSE}) :
    serviceCreate(p, name, url, enabled, None, FALSE, MaxUrlCalls)
      /\ UNCHANGED <<lbVars, sample>>

ServiceCreateWrite ==
  \E p \in AdminProcs : serviceCreateWrite(p) /\ UNCHANGED <<lbVars, sample>>

ServiceUpdate ==
  \E p \in AdminProcs, id \in WebhookIds, name \in Optional(WebhookNames),
     url \in Optional(UpdateUrls), enabled \in Optional({FALSE}) :
    serviceUpdate(p, id, name, url, enabled, MaxUrlCalls) /\ UNCHANGED <<lbVars, sample>>

ServiceUpdateNameCheck ==
  \E p \in AdminProcs : serviceUpdateNameCheck(p) /\ UNCHANGED <<lbVars, sample>>

ServiceUpdateWrite ==
  \E p \in AdminProcs : serviceUpdateWrite(p) /\ UNCHANGED <<lbVars, sample>>

ControllerCreate ==
  \E p \in AdminProcs, name \in WebhookNames, url \in Urls, enabled \in Optional({FALSE}) :
    controllerCreate(p, name, url, enabled, None, MaxUrlCalls)
      /\ UNCHANGED <<lbVars, sample>>

ControllerCreateWrite ==
  \E p \in AdminProcs : controllerCreateWrite(p) /\ UNCHANGED <<lbVars, sample>>

ControllerUpdate ==
  \E p \in AdminProcs, id \in WebhookIds, name \in Optional(WebhookNames),
     url \in Optional(UpdateUrls), enabled \in Optional({FALSE}) :
    controllerUpdate(p, id, name, url, enabled, MaxUrlCalls) /\ UNCHANGED <<lbVars, sample>>

ControllerUpdateNameCheck ==
  \E p \in AdminProcs : controllerUpdateNameCheck(p) /\ UNCHANGED <<lbVars, sample>>

ControllerUpdateWrite ==
  \E p \in AdminProcs : controllerUpdateWrite(p) /\ UNCHANGED <<lbVars, sample>>

UrlToggleEnabled ==
  \E p \in AdminProcs, id \in WebhookIds :
    toggleEnabled(p, id, MaxUrlCalls) /\ UNCHANGED <<lbVars, sample>>

UrlToggleWrite == \E p \in AdminProcs : toggleWrite(p) /\ UNCHANGED <<lbVars, sample>>

DeleteWebhook ==
  \E p \in AdminProcs, id \in WebhookIds :
    deleteWebhook(p, id, MaxUrlCalls) /\ UNCHANGED <<lbVars, sample>>

DeleteWrite == \E p \in AdminProcs : deleteWrite(p) /\ UNCHANGED <<lbVars, sample>>

ControllerDelete ==
  \E p \in AdminProcs, id \in WebhookIds :
    controllerDelete(p, id, MaxUrlCalls) /\ UNCHANGED <<lbVars, sample>>

NextUrl ==
  \/ ServiceCreate
  \/ ServiceCreateWrite
  \/ ServiceUpdate
  \/ ServiceUpdateNameCheck
  \/ ServiceUpdateWrite
  \/ ControllerCreate
  \/ ControllerCreateWrite
  \/ ControllerUpdate
  \/ ControllerUpdateNameCheck
  \/ ControllerUpdateWrite
  \/ UrlToggleEnabled
  \/ UrlToggleWrite
  \/ DeleteWebhook
  \/ DeleteWrite
  \/ ControllerDelete

\* Subscriber create, update, toggle and delete requests in production mode,
\* two of them at a time.
SpecUrl == InitUrl /\ [][NextUrl]_vars

\* C24 as stated: in production mode no stored subscriber has a URL whose
\* host is localhost, 127.0.0.1 or in 10.*, 172.16-31.* or 192.168.*.
C24_NoPrivateUrlStored ==
  \A id \in DOMAIN webhooks : ~IsLoopbackOrPrivate(webhooks[id].url.hostname)

\* ------------------------------------------------------------ termination
LiveDispatch ==
  \E k \in Slots, e \in Events :
    /\ FreeSlot(k)
    /\ sendToAllWebhooks(k, e[1], e[2], "ok", MaxLiveDispatches)
    /\ UNCHANGED <<lbVars, adVars>>

NextLive ==
  \/ LiveDispatch
  \/ DispatchReturn
  \/ SendWebhook
  \/ HttpResponse
  \/ RetryWake
  \/ StatsUpdated

\* Dispatches whose repository calls return, whose HTTP attempts complete or
\* time out, and whose backoff sleeps end.
SpecLive ==
  /\ InitWh
  /\ [][NextLive]_vars
  /\ WF_vars(SendWebhook)
  /\ WF_vars(HttpResponse)
  /\ WF_vars(RetryWake)
  /\ WF_vars(StatsUpdated)
  /\ WF_vars(DispatchReturn)

\* C25: every delivery that was started settles, having issued no more
\* requests than its subscriber's maxAttempts, and every dispatch returns to
\* its caller.
C25_DeliveriesTerminate ==
  /\ \A k \in Slots : (dispatches[k].pc = "waiting") ~> (dispatches[k].pc = "returned")
  /\ \A k \in Slots, id \in WebhookIds :
       (<<k, id>> \in DOMAIN deliveries /\ deliveries[<<k, id>>].pc # "settled")
         ~> (<<k, id>> \in DOMAIN deliveries => deliveries[<<k, id>>].pc = "settled")
  /\ [](\A d \in Sending :
          /\ deliveries[d].attempts <= AllowedAttempts(d)
          /\ deliveries[d].requests <= AllowedAttempts(d))

\* A dispatch has returned after its delivery had used both attempts of the
\* subscriber and failed.
C25_Witness ==
  /\ webhooks["w1"].retryConfig.maxAttempts = 2
  /\ webhooks["w1"].failedExecutions = 1
  /\ webhooks["w1"].lastExecutionError = ErrorMessage(500)
  /\ dispatches[1].pc = "returned"
  /\ dispatches[1].outcomes = {"failed"}

\* ================================================== rotation namespaces
\* The key selectInstanceForContactInGroup computes for the global descriptor
\* of a group.
GroupGlobalKey(groupId) == GroupContactKey(groupId, <<"g", "l", "o", "b", "a", "l">>)


\* The descriptor stored under the key of the group's global descriptor.
GroupGlobalOf(c, mem, groupId) ==
  getRotationDataFromCache(c, cacheOn, mem, GroupGlobalKey(groupId), "ok")

\* The await named pc of the balanced send of process p resolves in this step.
AtStep(p, pc) == calls[p].pc = pc /\ calls'[p].pc # pc

\* A balanced send of the given kind takes a step of its selection.
SelectStepOf(p, op) ==
  /\ calls[p].op = op
  /\ \E pc \in {"readContact", "readGlobal", "saveContact", "saveGlobal"} : AtStep(p, pc)

\* C26 as stated: a grouped selection leaves the top-level global descriptor
\* of the ungrouped sends and the global descriptor of every other group
\* unchanged, and an ungrouped selection leaves the global descriptor of every
\* group unchanged.
C26_GroupGlobalIsolated ==
  [][\A p \in Procs :
       /\ SelectStepOf(p, "group") =>
            /\ getGlobalRotationData(cache', cacheOn, globalRotationMemory', "ok")
                 = getGlobalRotationData(cache, cacheOn, globalRotationMemory, "ok")
            /\ \A g \in DOMAIN groups \ {calls[p].groupId} :
                 GroupGlobalOf(cache', rotationMemory', g) = GroupGlobalOf(cache, rotationMemory, g)
       /\ SelectStepOf(p, "plain") =>
            \A g \in DOMAIN groups :
              GroupGlobalOf(cache', rotationMemory', g) = GroupGlobalOf(cache, rotationMemory, g)]_vars

\* The grouped selections, before position j of the log, of the group and
\* of the contact (the digits of the number) of the selection at position j.
EarlierSameContact(j) ==
  {i \in 1..(j - 1) :
     /\ log[i].op = "group"
     /\ log[i].groupId = log[j].groupId
     /\ normalizeContactNumber(log[i].number) = normalizeContactNumber(log[j].number)}

\* C27 as stated: two grouped sends to one group whose numbers differ only in
\* characters that are not digits share one contact descriptor: the second
\* selection reads the descriptor the first one left.
C27_GroupKeyNormalized ==
  \A j \in 1..Len(log) :
    (log[j].op = "group" /\ EarlierSameContact(j) # {})
      => LET i == CHOOSE x \in EarlierSameContact(j) : \A y \in EarlierSameContact(j) : y <= x
         IN  /\ ~log[j].absent
             /\ log[j].usedBefore = log[i].usedAfter

\* The rotationCount of the contact descriptor stored under the key; 0 when
\* there is none.
RotationCountOf(c, mem, contactKey) ==
  LET read == getRotationDataFromCache(c, cacheOn, mem, contactKey, "ok")
  IN  IF read = None THEN 0 ELSE read[1].rotationCount

\* The selection reset the contact's cycle: with the pick added, the used
\* instances it kept covered the candidates.
CycleReset(contactRead, candidates, pick) ==
  LET kept == IF contactRead = None THEN <<>>
              ELSE SelectSeq(contactRead[1].usedInstances,
                             LAMBDA i : i \in Range(candidates))
  IN  Len(SetAdd(kept, pick)) >= Len(candidates)

\* C28 as stated: a grouped selection adds one to the rotationCount of the
\* contact descriptor when it resets the cycle and leaves it unchanged when
\* it does not.
C28_CountsCycleResets ==
  [][\A p \in Procs :
       (calls[p].op = "group" /\ AtStep(p, "saveContact")) =>
         LET c == calls[p]
             contactKey == CallContactKey(c)
             before == IF c.contactRead = None THEN 0 ELSE c.contactRead[1].rotationCount
         IN  RotationCountOf(cache', rotationMemory', contactKey)
               = before + (IF CycleReset(c.contactRead, c.groupInstances,
                                         c.sel[1].selectedInstance)
                           THEN 1 ELSE 0)]_vars

\* ================================================= the two selections
\* C29 as stated: started from equal contact and global descriptors and the
\* same candidate list, the grouped and the ungrouped selection return the
\* same pick and leave equal contact and global descriptors: whenever a send
\* computes its selection from the descriptors it has read, the other
\* selection gives, for these descriptors and candidates, the same pick and
\* the same descriptors to store.
C29_SameAlgorithm ==
  [][\A p \in Procs :
       (AtStep(p, "readGlobal") /\ calls'[p].sel # None) =>
         LET c == calls'[p]
             grouped == GroupSelection(c.contactRead, c.globalRead, c.groupInstances)
             plain == PlainSelection(c.contactRead, c.globalRead, c.groupInstances)
         IN  /\ c.sel[1] \in {grouped, plain}
             /\ grouped.selectedInstance = plain.selectedInstance
             /\ grouped.newContactRotationData = plain.newContactRotationData
             /\ grouped.newGlobalRotationData = plain.newGlobalRotationData]_vars

\* ===================================================== rotation fallback
\* A shared cache that has no entry for any key.
CacheMiss == <<>>

\* C30 as stated: whether or not the cache write of a save fails, the save
\* returns and the fallback entry is updated: a read of the contact
\* descriptor, and of the global descriptor, that misses the cache returns
\* what the selection saved.
C30_FallbackAlwaysUpdated ==
  [][\A p \in Procs :
       /\ AtStep(p, "saveContact") =>
            /\ calls'[p].pc = "saveGlobal"
            /\ getRotationDataFromCache(CacheMiss, cacheOn, rotationMemory',
                                        CallContactKey(calls[p]), "ok")
                 = Some(calls[p].sel[1].newContactRotationData)
       /\ AtStep(p, "saveGlobal") =>
            /\ calls'[p].pc = "send"
            /\ getGlobalRotationData(CacheMiss, cacheOn, globalRotationMemory', "ok")
                 = Some(calls[p].sel[1].newGlobalRotationData)]_vars

\* ===================================================== rotation reads
\* C31 as stated: the descriptor a selection reads is the cache entry when
\* there is one, otherwise the fallback entry, whether the cache missed or
\* its read failed; it is absent only when neither exists.
C31_ReadFallsBackOnError ==
  [][\A p \in Procs :
       /\ AtStep(p, "readContact") =>
            calls'[p].contactRead
              = getRotationDataFromCache(cache, cacheOn, rotationMemory,
                                         CallContactKey(calls[p]), "ok")
       /\ AtStep(p, "readGlobal") =>
            calls'[p].globalRead
              = getGlobalRotationData(cache, cacheOn, globalRotationMemory, "ok")]_vars

\* ================================================= breaker transitions
\* The delivery ends in this step and a success is recorded for it.
RecordedSuccess(d) ==
  /\ deliveries[d].pc # "settled"
  /\ d \in DOMAIN deliveries'
  /\ deliveries'[d].pc = "settled"
  /\ deliveries'[d].outcome = "success"

\* C32 as stated: recording a success while the breaker is CLOSED leaves its
\* failures, lastFailureTime and state unchanged.
C32_ClosedSuccessNoOp ==
  [][\A d \in DOMAIN deliveries :
       (RecordedSuccess(d) /\ d[2] \in DOMAIN circuitBreakers
          /\ circuitBreakers[d[2]].state = "CLOSED")
         => circuitBreakers'[d[2]] = circuitBreakers[d[2]]]_vars

\* C32, amended: recording a success while the breaker is CLOSED leaves it
\* CLOSED and sets failures and lastFailureTime to 0; the record is unchanged
\* exactly when it had counted no failure.
C32_ClosedSuccessResets ==
  [][\A d \in DOMAIN deliveries :
       (RecordedSuccess(d) /\ d[2] \in DOMAIN circuitBreakers
          /\ circuitBreakers[d[2]].state = "CLOSED")
         => /\ circuitBreakers'[d[2]] = [failures |-> 0, lastFailureTime |-> 0,
                                         state |-> "CLOSED"]
            /\ (circuitBreakers'[d[2]] = circuitBreakers[d[2]])
                 <=> circuitBreakers[d[2]].failures = 0]_vars

\* A success was recorded after two failures: the breaker is closed and has
\* forgotten them.
C32_Witness ==
  /\ "w1" \in DOMAIN circuitBreakers
  /\ circuitBreakers["w1"] = [failures |-> 0, lastFailureTime |-> 0, state |-> "CLOSED"]
  /\ webhooks["w1"].failedExecutions = 2
  /\ webhooks["w1"].successfulExecutions = 1
  /\ webhooks["w1"].lastExecutionStatus = "success"
  /\ deliveries = <<>>

\* The times, from t on, at which the cooldown of a failure at t is running.
CooldownTimes(t) == {t, t + TickMs, t + CIRCUIT_BREAKER_TIMEOUT}

\* C33: from HALF_OPEN a recorded success closes the breaker with failures 0,
\* and a recorded failure opens it with lastFailureTime the time of the
\* failure, so that the gate denies during the 60 s that follow.
C33_HalfOpenTransitions ==
  [][\A d \in DOMAIN deliveries :
       (d[2] \in DOMAIN circuitBreakers /\ circuitBreakers[d[2]].state = "HALF_OPEN")
         => /\ RecordedSuccess(d) =>
                 /\ circuitBreakers'[d[2]].state = "CLOSED"
                 /\ circuitBreakers'[d[2]].failures = 0
            /\ RecordedFailed(d) =>
                 /\ circuitBreakers'[d[2]].state = "OPEN"
                 /\ circuitBreakers'[d[2]].lastFailureTime = now
                 /\ \A t \in CooldownTimes(now) :
                      ~canExecuteWebhook(circuitBreakers', d[2], t).allowed]_vars

\* The probe of an open breaker whose cooldown had passed has failed: the
\* breaker is open again since the time of that failure.
C33_Witness ==
  /\ "w1" \in DOMAIN circuitBreakers
  /\ circuitBreakers["w1"] = [failures |-> 6, lastFailureTime |-> now, state |-> "OPEN"]
  /\ \E d \in DOMAIN deliveries :
       /\ deliveries[d].gateState = "OPEN"
       /\ deliveries[d].pc = "settled"
       /\ deliveries[d].outcome = "failed"

\* ==================================================== execution status
\* C34 as stated: the lastExecutionStatus of a subscriber is unset or one of
\* 'success' and 'failed'.
C34_StatusIsSuccessOrFailed ==
  \A id \in DOMAIN webhooks : webhooks[id].lastExecutionStatus \in {"", "success", "failed"}

\* ================================================================ backoff
\* Delays are in milliseconds; jitterFactor and the value of Math.random()
\* * 2 - 1 are in thousandths. A field that is absent is 0: `x || d` gives d
\* for both.
DefaultInitialDelaySeconds == 5
DefaultMaxDelaySeconds == 300
DefaultJitterFactor == 200

\* x || d
OrDefault(x, d) == IF x = 0 THEN d ELSE x

RECURSIVE Pow2(_)
\* Math.pow(2, n)
Pow2(n) == IF n <= 0 THEN 1 ELSE 2 * Pow2(n - 1)

Min(a, b) == IF a <= b THEN a ELSE b
Max(a, b) == IF a >= b THEN a ELSE b

\* The values Math.random() * 2 - 1 takes, in thousandths.
Randoms == {-1000, -500, 0, 500}

\* The retry configurations of the subscribers.
BackoffConfigs ==
  [initialDelaySeconds : {1, 2}, useExponentialBackoff : BOOLEAN,
   maxDelaySeconds : {3, 300}, jitterFactor : {0, 200, 500}]

\* The wait of retryWebhookRequest after the failed attempt number `attempts`
\* (1-based), in milliseconds.
nextDelay(retryConfig, attempts, random) ==
  LET initialDelay == OrDefault(retryConfig.initialDelaySeconds, DefaultInitialDelaySeconds)
      maxDelay == OrDefault(retryConfig.maxDelaySeconds, DefaultMaxDelaySeconds)
      jitterFactor == OrDefault(retryConfig.jitterFactor, DefaultJitterFactor)
      base == Min(initialDelay * Pow2(attempts - 1), maxDelay)
      jitter == (base * jitterFactor * random) \div 1000
  IN  IF retryConfig.useExponentialBackoff
      THEN Max(initialDelay * 1000, base * 1000 + jitter)
      ELSE initialDelay * 1000

\* input is the retry configuration, value the waits so far.
InitBackoff ==
  /\ LbIdle
  /\ WhIdle
  /\ pending = <<>>
  /\ reply = NoReply
  /\ sample \in {[input |-> c, value |-> <<>>, applied |-> 0] : c \in BackoffConfigs}

\* One more attempt fails and the loop computes its wait.
backoffWait(random, limit) ==
  /\ sample.applied < limit
  /\ sample' = [sample EXCEPT
       !.value = Append(@, nextDelay(sample.input, sample.applied + 1, random)),
       !.applied = @ + 1]
  /\ UNCHANGED <<pending, reply>>

BackoffWait ==
  \E random \in Randoms : backoffWait(random, MaxBackoffAttempts) /\ UNCHANGED <<lbVars, whVars>>

NextBackoff == BackoffWait

\* The waits of one retry loop.
SpecBackoff == InitBackoff /\ [][NextBackoff]_vars

\* C35 as stated: with exponential backoff and jitterFactor 0 the wait after
\* the k-th failed attempt is min(initialDelaySeconds * 2^(k-1),
\* maxDelaySeconds) seconds; without exponential backoff it is
\* initialDelaySeconds; it is never below initialDelaySeconds.
C35_BackoffExact ==
  \A k \in 1..Len(sample.value) :
    LET c == sample.input
    IN  /\ (c.useExponentialBackoff /\ c.jitterFactor = 0)
             => sample.value[k]
                  = Min(c.initialDelaySeconds * Pow2(k - 1), c.maxDelaySeconds) * 1000
        /\ ~c.useExponentialBackoff => sample.value[k] = c.initialDelaySeconds * 1000
        /\ sample.value[k] >= c.initialDelaySeconds * 1000

\* C36: in every state the breaker of a subscriber is CLOSED exactly when it
\* has counted fewer than 5 failures.
C36_ClosedIffBelowThreshold ==
  \A id \in DOMAIN circuitBreakers :
    (circuitBreakers[id].state = "CLOSED") <=> (circuitBreakers[id].failures < 5)

\* Two deliveries passed the gate of a closed breaker with four failures and
\* both failed: the breaker is open with six failures, and its cooldown has
\* let a later probe through.
C36_Witness ==
  /\ "w1" \in DOMAIN circuitBreakers
  /\ circuitBreakers["w1"].state = "HALF_OPEN"
  /\ circuitBreakers["w1"].failures = 6
  /\ \E d \in DOMAIN deliveries :
       deliveries[d].gateState = "OPEN" /\ deliveries[d].pc = "posting"

\* ===================================================== filtered deliveries
\* One subscriber that excludes instance b and tries once.
InitFilter ==
  /\ LbIdle
  /\ AdIdle
  /\ webhooks = ("w1" :> ExcludingSubscriber)
  /\ circuitBreakers = <<>>
  /\ now = TickMs
  /\ dispatches = [k \in Slots |-> IdleDispatch]
  /\ deliveries = <<>>
  /\ lastRequest = None
  /\ started = 0

\* Events of an instance the subscriber takes and of the one it excludes.
FilterDispatch ==
  \E k \in Slots, instanceName \in {"a", "b"} :
    /\ FreeSlot(k)
    /\ sendToAllWebhooks(k, "MESSAGES_UPSERT", instanceName, "ok", MaxFilterDispatches)
    /\ UNCHANGED <<lbVars, adVars>>

NextFilter ==
  \/ FilterDispatch
  \/ DispatchReturn
  \/ SendWebhook
  \/ BreakerHttpResponse
  \/ StatsUpdated
  \/ Tick

\* Dispatches, some of them filtered out, to a subscriber that fails or
\* answers, while time passes.
SpecFilter == InitFilter /\ [][NextFilter]_vars

\* The breaker record of the subscriber; a subscriber without a record has
\* the record the gate would create.
BreakerRecord(cbs, id) == IF id \in DOMAIN cbs THEN cbs[id] ELSE ClosedBreaker

\* C37 as stated: a delivery that the event filter or the instance filter
\* skips issues no request and leaves the statistics and the breaker record
\* of the subscriber unchanged.
C37_FilteredChangesNothing ==
  [][\A d \in DOMAIN deliveries :
       (Gated(d) /\ deliveries'[d].outcome = "filtered")
         => /\ deliveries'[d].requests = 0
            /\ lastRequest' = lastRequest
            /\ webhooks' = webhooks
            /\ BreakerRecord(circuitBreakers', d[2]) = BreakerRecord(circuitBreakers, d[2])]_vars

\* ======================================================= failing sends
\* The cache calls succeed; the backend send succeeds or fails.
SendFailGroupSend ==
  \E p \in Procs, alias \in Aliases, number \in Numbers :
    callStart(p, alias, number, 1, MaxSendFailCalls) /\ UNCHANGED <<whVars, adVars>>

NextSendFail ==
  \/ SendFailGroupSend
  \/ CallActive
  \/ CallReadContact
  \/ CallReadGlobal
  \/ CallSaveContact
  \/ CallSaveGlobal
  \/ CallSendOrFail
  \/ CallInfoContact
  \/ CallInfoGlobal

\* Grouped sends whose backend may fail, with a reliable cache.
SpecSendFail == Init /\ [][NextSendFail]_vars

\* C38: a grouped send whose backend send fails after the selection ends with
\* the error, and the failure changes no descriptor: the contact and global
\* descriptors hold what the selection wrote, the pick is the last used
\* instance of both and is in the contact's used set, and the next send for
\* the contact reads that descriptor.
C38_FailedSendKeepsSelection ==
  [][\A p \in Procs :
       /\ (AtStep(p, "send") /\ calls'[p].status = "SendError") =>
            LET c == calls[p]
                contactRead == getRotationDataFromCache(cache', cacheOn, rotationMemory',
                                                        CallContactKey(c), "ok")
                globalRead == getGlobalRotationData(cache', cacheOn, globalRotationMemory', "ok")
            IN  /\ calls'[p].pc = "done"
                /\ result' = Response("group", c.alias, "SendError")
                /\ UNCHANGED <<cache, rotationMemory, globalRotationMemory, log>>
                /\ contactRead = Some(c.sel[1].newContactRotationData)
                /\ contactRead[1].lastUsedInstance = c.pick
                /\ c.pick \in Range(contactRead[1].usedInstances)
                /\ globalRead = Some(c.sel[1].newGlobalRotationData)
                /\ globalRead[1].lastUsedInstance = c.pick
       /\ (/\ AtStep(p, "readContact")
           /\ result.status = "SendError"
           /\ log[Len(log)].groupId = calls[p].groupId
           /\ log[Len(log)].number = calls[p].number) =>
            /\ calls'[p].contactRead # None
            /\ calls'[p].contactRead[1].lastUsedInstance = log[Len(log)].pick
            /\ calls'[p].contactRead[1].usedInstances = log[Len(log)].usedAfter]_vars

\* The second grouped send for a contact of a group of two failed after it
\* picked the other instance; the stored descriptors name the failed pick as
\* the last used instance.
C38_Witness ==
  /\ result.op = "group"
  /\ result.status = "SendError"
  /\ Len(log) = 2
  /\ log[1].number = log[2].number
  /\ Len(log[2].cands) = 2
  /\ log[2].pick # log[1].pick
  /\ GroupContactKey(log[2].groupId, log[2].number) \in DOMAIN rotationMemory
  /\ rotationMemory[GroupContactKey(log[2].groupId, log[2].number)].lastUsedInstance
       = log[2].pick
  /\ globalRotationMemory.lastUsedInstance = log[2].pick

\* =================================================== membership changes
\* One group of two members is stored.
InitMembership ==
  /\ WhIdle
  /\ AdIdle
  /\ groups = ("g1" :> [name |-> <<"A">>, alias |-> <<"a">>, enabled |-> TRUE,
                        instances |-> << <<"a">>, <<"b">> >>])
  /\ open = [i \in Instances |-> TRUE]
  /\ cacheOn = FALSE
  /\ cache = <<>>
  /\ rotationMemory = <<>>
  /\ globalRotationMemory = EmptyGlobalData
  /\ log = <<>>
  /\ result = Response("none", "", "")
  /\ envSteps = 0
  /\ calls = <<>>

NextMembership ==
  \/ GroupAddInstance
  \/ GroupRemoveInstance
  \/ ServiceValidate
  \/ ServiceWrite

\* addInstance and removeInstance requests on a stored group, running
\* concurrently.
SpecMembership == InitMembership /\ [][NextMembership]_vars

\* The process writes the list of its addInstance or removeInstance request
\* in this step, and the request succeeds.
MembershipWritten(p, op) ==
  /\ p \in DOMAIN pending
  /\ pending[p].op = op
  /\ pending[p].pc = "write"
  /\ p \notin DOMAIN pending'
  /\ reply'.status = "ok"

\* C39 as stated: no membership change is lost: the list a successful
\* addInstance writes has every member stored at that time and at most its
\* own name more, and the list a successful removeInstance writes has every
\* member stored at that time but at most its own name and no other, so what
\* an overlapping request with another name added stays and what it removed
\* stays out.
C39_NoLostMembershipChange ==
  [][\A p \in AdminProcs :
       LET stored == Range(groups[pending[p].id].instances)
           written == Range(groups'[pending[p].id].instances)
       IN  /\ MembershipWritten(p, "addInstance") =>
                 stored \subseteq written /\ Cardinality(written \ stored) <= 1
           /\ MembershipWritten(p, "removeInstance") =>
                 written \subseteq stored /\ Cardinality(stored \ written) <= 1]_vars

\* ------------------------------------------------ creation over the HTTP API
InitCreate ==
  /\ LbIdle
  /\ WhIdle
  /\ AdIdle

CreateUrls == {[protocol |-> s, hostname |-> <<"example", "com">>] : s \in {"https:", "ftp:"}}

\* POST /external-webhook/create with the name n1 and retryConfig
\* {maxAttempts: 1}.
CreateSubscriber ==
  \E p \in AdminProcs, url \in CreateUrls, enabled \in Optional(BOOLEAN) :
    /\ controllerCreate(p, "n1", url, enabled,
                        Some([maxAttempts |-> 1, nonRetryableStatusCodes |-> None]),
                        MaxCreateCalls)
    /\ UNCHANGED <<lbVars, sample>>

\* sample keeps the flag of the request whose row was inserted and the flag
\* of that row.
CreateSubscriberWrite ==
  \E p \in AdminProcs :
    /\ controllerCreateWrite(p)
    /\ sample' = IF reply'.status = "ok"
                 THEN [input |-> pending[p].enabled,
                       value |-> Some(EnabledOrTrue(pending[p].enabled)),
                       applied |-> sample.applied + 1]
                 ELSE sample
    /\ UNCHANGED lbVars

CreateDispatch ==
  \E k \in Slots, eventType \in {"MESSAGES_UPSERT", "SEND_MESSAGE"} :
    /\ FreeSlot(k)
    /\ sendToAllWebhooks(k, eventType, "a", "ok", MaxCreateDispatches)
    /\ UNCHANGED <<lbVars, adVars>>

NextCreate ==
  \/ CreateSubscriber
  \/ CreateSubscriberWrite
  \/ CreateDispatch
  \/ DispatchReturn
  \/ SendWebhook
  \/ BreakerHttpResponse
  \/ StatsUpdated

\* A subscriber is created over the HTTP API and events are dispatched; no
\* request toggles or updates the subscriber.
SpecCreate == InitCreate /\ [][NextCreate]_vars

\* C40 as stated: a subscriber created through the HTTP API is stored with
\* the enabled flag of the request, and one created with enabled = false
\* receives no delivery from any dispatch while it has not been toggled or
\* updated to enabled.
C40_CreatedWithGivenFlag ==
  \A b \in BOOLEAN :
    (sample.applied > 0 /\ sample.input = Some(b))
      => /\ webhooks["w1"].enabled = b
         /\ ~b => /\ lastRequest = None
                  /\ \A d \in DOMAIN deliveries : d[2] # "w1"
====
